---- MODULE Spec2Model ----
(***************************************************************************)
(* Habit tracker: the state document (habits, completion log, settings)    *)
(* with its mutation handlers, and the analytics functions computed from   *)
(* it (src/unnamed/part_001; part_000 is an earlier copy of the same       *)
(* functions).                                                             *)
(*                                                                         *)
(* A JavaScript Date is modelled as [day, tod]: the local calendar day as  *)
(* a count of days since 1970-01-01 and whether the time of day is local   *)
(* midnight (tod = 0) or later (tod = 1).  The time zone is one in which   *)
(* every day has a local midnight (no clock change skips 00:00), so that   *)
(* setHours(0, 0, 0, 0) and new Date(y, m, d) yield tod = 0 on every day.  *)
(* A date key is the triple <<year, month, day>> of the fields toISODate   *)
(* formats; KeyText gives its text, and the text is used wherever the code *)
(* depends on it (sorting, splitting, the round trip).  A day object of    *)
(* the log maps habit ids to the truthiness of the stored value.           *)
(***************************************************************************)
EXTENDS Integers, Sequences, FiniteSets, TLC

VARIABLES
  state,            \* the document held by App: settings, habits, completions
  selectedDateISO,  \* App's selected day (a date key)
  now,              \* the clock: what new Date() returns
  ops,              \* number of handler calls made so far
  call,             \* the last call made: the function and its arguments
  ret,              \* the results of the function under study, in call order
  pending,          \* the updates handed to setState and not yet rendered
  effect,           \* whether the saveState effect of the last render is due
  storage           \* the item of localStorage under the app's key

vars == <<state, selectedDateISO, now, ops, call, ret, pending, effect, storage>>

\* ------------------------------------------------------------------ bounds
NumIds == 3     \* size of the pool uid() draws from
MaxOps == 3     \* handler calls per run of the document machine
NumRollupIds == 2   \* habit ids in the inputs of the rollup functions
MaxWeeksBack == 2   \* largest weeksBack passed to rollupWeekly
MaxMonthsBack == 2  \* largest monthsBack passed to rollupMonthly
NumStreakDays == 7  \* days the logs given to computeBestStreak range over
MaxRangeDays == 40  \* largest distance in days from startISO to endISO
NumWeekStartDays == 14  \* consecutive days startOfWeek is called on
MaxDaysPassed == 1  \* days that pass between two calls of one function
NumPairDays == 5  \* days the logs given to both streak functions range over
MaxSimpleCalls == 4  \* handler calls per run of the simple tracker
MaxTicks == 1  \* milliseconds that pass during a run of the simple tracker
MaxDispatches == 2  \* handler calls per run of the app under React

\* -------------------------------------------------------- Date (built-in)
\* Day number of the civil date y-m-d (m in 1..12), days since 1970-01-01.
DaysFromCivil(y, m, d) ==
  LET yy  == IF m <= 2 THEN y - 1 ELSE y
      era == yy \div 400
      yoe == yy - era * 400
      mp  == IF m > 2 THEN m - 3 ELSE m + 9
      doy == (153 * mp + 2) \div 5 + d - 1
      doe == yoe * 365 + yoe \div 4 - yoe \div 100 + doy
  IN  era * 146097 + doe - 719468

\* Civil date <<y, m, d>> of a day number.
CivilFromDays(z) ==
  LET zz  == z + 719468
      era == zz \div 146097
      doe == zz - era * 146097
      yoe == (doe - doe \div 1460 + doe \div 36524 - doe \div 146096) \div 365
      doy == doe - (365 * yoe + yoe \div 4 - yoe \div 100)
      mp  == (5 * doy + 2) \div 153
      d   == doy - (153 * mp + 2) \div 5 + 1
      m   == IF mp < 10 THEN mp + 3 ELSE mp - 9
      y   == yoe + era * 400
  IN  <<IF m <= 2 THEN y + 1 ELSE y, m, d>>

\* MakeDay of the language: month index and day of month may overflow.
MakeDay(y, mIdx, dt) ==
  DaysFromCivil(y + (mIdx \div 12), (mIdx % 12) + 1, 1) + dt - 1

\* new Date(y, mIdx, d): local midnight; years 0..99 mean 1900..1999.
NewDate(y, mIdx, d) ==
  [day |-> MakeDay(IF y \in 0..99 THEN 1900 + y ELSE y, mIdx, d), tod |-> 0]

getFullYear(dt) == CivilFromDays(dt.day)[1]
getMonth(dt) == CivilFromDays(dt.day)[2] - 1
getDate(dt) == CivilFromDays(dt.day)[3]
getDay(dt) == (dt.day + 4) % 7
setDate(dt, n) == [dt EXCEPT !.day = MakeDay(getFullYear(dt), getMonth(dt), n)]
setHours0(dt) == [dt EXCEPT !.tod = 0]
\* d1 < d2 in place of d1 <= d2.
DateLeq_Strict(d1, d2) == d1.day < d2.day \/ (d1.day = d2.day /\ d1.tod < d2.tod)

\* d1 <= d2 on time values
DateLeq(d1, d2) == d1.day < d2.day \/ (d1.day = d2.day /\ d1.tod <= d2.tod)

\* --------------------------------------------------------------- Utilities
toISODate(d) == <<getFullYear(d), getMonth(d) + 1, getDate(d)>>

parseISODate(iso) == NewDate(iso[1], iso[2] - 1, iso[3])

\* ---- date keys as text
\* A string is the sequence of its characters.  The characters met in keys
\* are the digits and "-"; "T" stands for any character that is part of no
\* numeral.
Digits == <<"0", "1", "2", "3", "4", "5", "6", "7", "8", "9">>
IsDigit(c) == \E i \in DOMAIN Digits : Digits[i] = c
DigitValue(c) == (CHOOSE i \in DOMAIN Digits : Digits[i] = c) - 1

\* The code unit of a character: strings are ordered by it.
CodeUnit(c) == IF c = "-" THEN 45 ELSE IF IsDigit(c) THEN 48 + DigitValue(c) ELSE 84

\* s < t on strings, the order of Array.prototype.sort() without a comparator.
LexLess(s, t) ==
  \E i \in 1..Len(t) :
    /\ \A j \in 1..(i - 1) : j <= Len(s) /\ s[j] = t[j]
    /\ i > Len(s) \/ CodeUnit(s[i]) < CodeUnit(t[i])

\* String(n) for an integer n.
RECURSIVE DecimalText(_)
DecimalText(n) ==
  IF n < 10 THEN <<Digits[n + 1]>> ELSE DecimalText(n \div 10) \o <<Digits[(n % 10) + 1]>>
NumberText(n) == IF n < 0 THEN <<"-">> \o DecimalText(-n) ELSE DecimalText(n)

pad2(n) == IF Len(NumberText(n)) < 2 THEN <<"0">> \o NumberText(n) ELSE NumberText(n)

\* The template of toISODate on the fields <<year, month, day>> of a key.
KeyText(iso) == NumberText(iso[1]) \o <<"-">> \o pad2(iso[2]) \o <<"-">> \o pad2(iso[3])

\* toISODate with its result as text.
toISODateText(d) == KeyText(toISODate(d))

\* text.split("-")
RECURSIVE Split(_)
Split(text) ==
  IF \A i \in DOMAIN text : text[i] # "-" THEN <<text>>
  ELSE LET at == CHOOSE i \in DOMAIN text :
                   text[i] = "-" /\ \A j \in 1..(i - 1) : text[j] # "-"
       IN  <<SubSeq(text, 1, at - 1)>> \o Split(SubSeq(text, at + 1, Len(text)))

\* Number(part) of a string of digits and "T": the number it spells, 0 for
\* the empty string, NaN otherwise.
IsNumeric(part) == \A i \in DOMAIN part : IsDigit(part[i])
RECURSIVE DecimalValue(_)
DecimalValue(part) ==
  IF part = << >> THEN 0
  ELSE 10 * DecimalValue(SubSeq(part, 1, Len(part) - 1)) + DigitValue(part[Len(part)])

\* new Date(y, m - 1, d) when y, m or d is NaN or undefined.
InvalidDate == [invalid |-> TRUE]
IsValidDate(dt) == "day" \in DOMAIN dt

\* parseISODate on text: the first three parts are y, m, d; a missing part
\* is undefined, further parts are dropped.
parseISODateText(text) ==
  LET parts == Split(text)
  IN  IF Len(parts) >= 3 /\ \A i \in 1..3 : IsNumeric(parts[i])
      THEN parseISODate(<<DecimalValue(parts[1]), DecimalValue(parts[2]), DecimalValue(parts[3])>>)
      ELSE InvalidDate

addDays(date, n) == setDate(date, getDate(date) + n)

\* startOfWeek with diff = day - weekStartsOn, not reduced modulo 7.
startOfWeek_NoWrap(date, weekStartsOn) ==
  LET day  == getDay(date)
      diff == day - weekStartsOn
  IN  setHours0(setDate(date, getDate(date) - diff))

startOfWeek(date, weekStartsOn) ==
  LET day  == getDay(date)
      diff == (day - weekStartsOn + 7) % 7
  IN  setHours0(setDate(date, getDate(date) - diff))

Max(a, b) == IF a >= b THEN a ELSE b
Min(a, b) == IF a <= b THEN a ELSE b
clamp(n, min, max) == Max(min, Min(max, n))

\* ------------------------------------------------------------- JS objects
\* An object is a function from its own keys to values.
EmptyObject == [k \in {} |-> TRUE]
DeleteKey(obj, key) == [k \in (DOMAIN obj) \ {key} |-> obj[k]]
SetKey(obj, key, v) == [k \in (DOMAIN obj) \cup {key} |-> IF k = key THEN v ELSE obj[k]]

\* -------------------------------------------------------------- Data Model
Ids == 1..NumIds

\* name, notes and createdAtISO are carried along unread by every function
\* modelled here and are left out of the habit record.
Habit(id, target, active) == [id |-> id, targetPerWeek |-> target, active |-> active]

defaultState ==
  [version |-> 1,
   settings |-> [weekStartsOn |-> 1],
   habits |-> <<Habit(1, 5, TRUE), Habit(2, 4, TRUE), Habit(3, 6, TRUE)>>,
   completions |-> EmptyObject]

\* ---------------------------------------------------------------- Analytics
HabitIdsOf(habits) == {habits[i].id : i \in DOMAIN habits}
\* getActiveHabits without the filter.
getActiveHabits_All(habits) == habits

getActiveHabits(habits) == LET IsActive(h) == h.active IN SelectSeq(habits, IsActive)

isCompleted(completions, dateISO, habitId) ==
  /\ dateISO \in DOMAIN completions
  /\ habitId \in DOMAIN completions[dateISO]
  /\ completions[dateISO][habitId]

\* toggleCompletion that marks and never unmarks.
toggleCompletion_AlwaysAdd(completions, dateISO, habitId) ==
  LET day0 == IF dateISO \in DOMAIN completions THEN completions[dateISO] ELSE EmptyObject
  IN  SetKey(completions, dateISO, SetKey(day0, habitId, TRUE))

\* toggleCompletion without the pruning of an emptied day.
toggleCompletion_NoPrune(completions, dateISO, habitId) ==
  LET day0 == IF dateISO \in DOMAIN completions THEN completions[dateISO] ELSE EmptyObject
      day  == IF habitId \in DOMAIN day0 /\ day0[habitId]
              THEN DeleteKey(day0, habitId)
              ELSE SetKey(day0, habitId, TRUE)
  IN  SetKey(completions, dateISO, day)

toggleCompletion(completions, dateISO, habitId) ==
  LET day0 == IF dateISO \in DOMAIN completions THEN completions[dateISO] ELSE EmptyObject
      day  == IF habitId \in DOMAIN day0 /\ day0[habitId]
              THEN DeleteKey(day0, habitId)
              ELSE SetKey(day0, habitId, TRUE)
      next == SetKey(completions, dateISO, day)
  IN  IF DOMAIN next[dateISO] = {} THEN DeleteKey(next, dateISO) ELSE next

\* ------------------------------------------------------- Number (built-in)
\* The language's numbers are binary64 floating point.  A positive number is
\* [sig, exp]: sig is its significand, SigBits binary digits with the most
\* significant first and sig[1] = 1, and its value is 1.sig[2]sig[3]... times
\* 2^exp.  Every operation rounds its exact result to the nearest such number,
\* a tie going to the one whose last digit is 0.
SigBits == 53

Reverse(s) == [i \in 1..Len(s) |-> s[Len(s) + 1 - i]]

\* The binary digits of a positive integer, and the integer of binary digits.
RECURSIVE IntBits(_)
IntBits(n) == IF n = 0 THEN << >> ELSE IntBits(n \div 2) \o <<n % 2>>

RECURSIVE BitsValue(_)
BitsValue(bits) ==
  IF bits = << >> THEN 0
  ELSE 2 * BitsValue(SubSeq(bits, 1, Len(bits) - 1)) + bits[Len(bits)]

\* The first n binary digits of r/den after the point (r < den), followed by
\* the remainder left after them.
RECURSIVE Expand(_, _, _)
Expand(r, den, n) ==
  IF n = 0 THEN <<r>>
  ELSE <<(2 * r) \div den>> \o Expand((2 * r) % den, den, n - 1)

\* The number of zeros with which the binary expansion of r/den starts after
\* the point (0 < r < den).
RECURSIVE LeadingZeros(_, _)
LeadingZeros(r, den) == IF 2 * r >= den THEN 0 ELSE 1 + LeadingZeros(2 * r, den)

\* bits + 1 on SigBits digits; all ones carry into 1 followed by zeros.
Increment(bits) ==
  IF \A i \in DOMAIN bits : bits[i] = 1
  THEN [i \in DOMAIN bits |-> IF i = 1 THEN 1 ELSE 0]
  ELSE LET z == CHOOSE i \in DOMAIN bits :
                  bits[i] = 0 /\ \A j \in (i + 1)..Len(bits) : bits[j] = 1
       IN  [i \in DOMAIN bits |-> IF i < z THEN bits[i] ELSE IF i = z THEN 1 ELSE 0]

\* Rounding of an exact result to a number: bits are its leading digits
\* (bits[1] = 1, of weight 2^exp), more is TRUE when non-zero digits follow
\* them.
RoundToNumber(bits, exp, more) ==
  LET kept  == [i \in 1..SigBits |-> IF i <= Len(bits) THEN bits[i] ELSE 0]
      guard == IF Len(bits) > SigBits THEN bits[SigBits + 1] ELSE 0
      rest  == more \/ \E i \in (SigBits + 2)..Len(bits) : bits[i] = 1
      up    == guard = 1 /\ (rest \/ kept[SigBits] = 1)
      carry == up /\ \A i \in 1..SigBits : kept[i] = 1
  IN  [sig |-> IF up THEN Increment(kept) ELSE kept,
       exp |-> IF carry THEN exp + 1 ELSE exp]

\* num / den for integers num > 0, den > 0.
Divide(num, den) ==
  LET q == num \div den
      r == num % den
  IN  IF q > 0
      THEN LET x == Expand(r, den, SigBits + 1)
           IN  RoundToNumber(IntBits(q) \o SubSeq(x, 1, SigBits + 1),
                             Len(IntBits(q)) - 1, x[SigBits + 2] # 0)
      ELSE LET z == LeadingZeros(r, den)
               x == Expand(r, den, z + SigBits + 1)
           IN  RoundToNumber(SubSeq(x, z + 1, z + SigBits + 1), -(z + 1),
                             x[z + SigBits + 2] # 0)

\* k times the integer whose digits, least significant first, are bits, plus
\* carry; the digits of the result, least significant first.
RECURSIVE TimesLE(_, _, _)
TimesLE(bits, k, carry) ==
  IF bits = << >>
  THEN Reverse(IntBits(carry))
  ELSE <<(Head(bits) * k + carry) % 2>> \o TimesLE(Tail(bits), k, (Head(bits) * k + carry) \div 2)

\* x * k for a number x and an integer k > 0.
Times(x, k) ==
  LET p == Reverse(TimesLE(Reverse(x.sig), k, 0))
  IN  RoundToNumber(p, x.exp + Len(p) - SigBits, FALSE)

\* Math.round(x) for a number 0 < x < 2^SigBits: the nearest integer, a half
\* rounding up.
MathRound(x) ==
  LET n == x.exp + 1      \* the number of digits before the point
  IN  (IF n >= 1 THEN BitsValue(SubSeq(x.sig, 1, n)) ELSE 0)
      + (IF n >= 0 /\ n < SigBits THEN x.sig[n + 1] ELSE 0)

\* The results that are no finite number, NaN (0 / 0) and Infinity (n / 0),
\* which rounding and multiplying leave as they are: one value that no
\* percentage equals.
NaN == -1

\* Math.round((num / den) * 100) for integers num >= 0 and den >= 0.
RoundPct(num, den) ==
  IF den = 0 THEN NaN
  ELSE IF num = 0 THEN 0
  ELSE MathRound(Times(Divide(num, den), 100))

RECURSIVE RangeFrom(_, _)
RangeFrom(d, end) ==
  IF DateLeq(d, end) THEN <<toISODate(d)>> \o RangeFrom(addDays(d, 1), end) ELSE << >>

dateRangeInclusive(startISO, endISO) ==
  RangeFrom(setHours0(parseISODate(startISO)), setHours0(parseISODate(endISO)))

\* active.reduce over isCompleted: the number of entries of the active list
\* completed on the day.
CompletedCount(active, completions, iso) ==
  Cardinality({i \in DOMAIN active : isCompleted(completions, iso, active[i].id)})

\* label (formatShort) is a display string and is left out of the points.
rollupDaily(habits, completions, startISO, endISO) ==
  LET active == getActiveHabits(habits)
      days   == dateRangeInclusive(startISO, endISO)
  IN  [k \in DOMAIN days |->
         [dateISO |-> days[k],
          completed |-> CompletedCount(active, completions, days[k]),
          total |-> Len(active),
          rate |-> IF Len(active) # 0
                   THEN RoundPct(CompletedCount(active, completions, days[k]), Len(active))
                   ELSE 0]]

\* Object.values(obj).reduce((a, b) => a + b, 0)
RECURSIVE SumValues(_)
SumValues(obj) ==
  IF DOMAIN obj = {} THEN 0
  ELSE LET k == CHOOSE x \in DOMAIN obj : TRUE
       IN  obj[k] + SumValues(DeleteKey(obj, k))

\* perHabit of a bucket of days: every active id starts at 0 and gains one
\* for each day and each active entry of that id completed on the day.
PerHabit(active, completions, days) ==
  [id \in HabitIdsOf(active) |->
     Cardinality({p \in (DOMAIN days) \X (DOMAIN active) :
                    active[p[2]].id = id /\ isCompleted(completions, days[p[1]], id)})]

\* A week end one day late: an eight-day bucket.
weekEnd_Late(ws) == addDays(ws, 7)

\* The last day of the week that starts on ws.
weekEnd(ws) == addDays(ws, 6)

\* end is the value of new Date() at the call.
rollupWeekly(habits, completions, weeksBack, weekStartsOn, end) ==
  LET active        == getActiveHabits(habits)
      thisWeekStart == startOfWeek(end, weekStartsOn)
      Week(i) ==
        LET ws     == addDays(thisWeekStart, -7 * i)
            we     == weekEnd(ws)
            wsISO  == toISODate(ws)
            weISO  == toISODate(we)
            days   == dateRangeInclusive(wsISO, weISO)
            perHabit       == PerHabit(active, completions, days)
            completedTotal == SumValues(perHabit)
            totalPossible  == Len(active) * 7
        IN  [weekStartISO |-> wsISO,
             completedTotal |-> completedTotal,
             totalPossible |-> totalPossible,
             rate |-> IF totalPossible # 0 THEN RoundPct(completedTotal, totalPossible) ELSE 0,
             perHabit |-> perHabit]
  IN  [k \in 1..weeksBack |-> Week(weeksBack - k)]

\* Date.setMonth: the day of the month is kept and may overflow.
setMonth(dt, mIdx) == [dt EXCEPT !.day = MakeDay(getFullYear(dt), mIdx, getDate(dt))]

\* startOfMonth that leaves the day of the month alone.
startOfMonth_KeepDay(date) == setHours0(date)

startOfMonth(date) == setHours0(setDate(date, 1))

\* The point of the month that runs over days and starts on startISO.
MonthPoint(active, completions, startISO, days) ==
  LET perHabit       == PerHabit(active, completions, days)
      completedTotal == SumValues(perHabit)
      totalPossible  == Len(active) * Len(days)
  IN  [monthISO |-> startISO,
       completedTotal |-> completedTotal,
       totalPossible |-> totalPossible,
       rate |-> IF totalPossible # 0 THEN RoundPct(completedTotal, totalPossible) ELSE 0,
       daysInMonth |-> Len(days),
       perHabit |-> perHabit]

\* The point of the month from mStart to the day before nextStart.
MonthBetween(active, completions, mStart, nextStart) ==
  MonthPoint(active, completions, toISODate(mStart),
             dateRangeInclusive(toISODate(mStart), toISODate(addDays(nextStart, -1))))

\* The body of the loop of rollupMonthly for the month that starts on mStart.
MonthFrom(active, completions, mStart) ==
  MonthBetween(active, completions, mStart, setMonth(mStart, getMonth(mStart) + 1))

\* nowDate is the value of new Date() at the call.
rollupMonthly(habits, completions, monthsBack, nowDate) ==
  LET active == getActiveHabits(habits)
      cur    == startOfMonth(nowDate)
      Month(i) ==
        MonthFrom(active, completions,
                  setHours0(setDate(setMonth(cur, getMonth(cur) - i), 1)))
  IN  [k \in 1..monthsBack |-> Month(monthsBack - k)]

\* The number of days the loop of computeStreak looks back.
MaxLookback == 3650

\* The loop of computeStreak over the indices lo <= i < hi: what it adds to
\* streak before it breaks or reaches hi.  The indices are walked in order,
\* the first half before the second, and the second only when the loop has
\* not broken in the first (halves keep the evaluation shallow).
RECURSIVE StreakIn(_, _, _, _, _)
StreakIn(lo, hi, habitId, completions, todayISO) ==
  IF lo >= hi THEN 0
  ELSE IF hi = lo + 1
  THEN IF isCompleted(completions, toISODate(addDays(parseISODate(todayISO), -lo)), habitId)
       THEN 1 ELSE 0
  ELSE LET mid   == (lo + hi) \div 2
           first == StreakIn(lo, mid, habitId, completions, todayISO)
       IN  IF first < mid - lo THEN first
           ELSE first + StreakIn(mid, hi, habitId, completions, todayISO)

\* computeStreak that starts at yesterday.
computeStreak_FromYesterday(habitId, completions, nowDate) ==
  StreakIn(1, MaxLookback, habitId, completions, toISODate(nowDate))

\* nowDate is the value of new Date() at the call.
computeStreak(habitId, completions, nowDate) ==
  StreakIn(0, MaxLookback, habitId, completions, toISODate(nowDate))

\* Object.keys(completions).sort(): the keys in the order of their text.
SortedKeys(completions) ==
  [i \in 1..Cardinality(DOMAIN completions) |->
     CHOOSE x \in DOMAIN completions :
       Cardinality({y \in DOMAIN completions : LexLess(KeyText(y), KeyText(x))}) = i - 1]

\* prev = null
NoPrev == << >>

\* The loop of computeBestStreak from the k-th date on; best, cur and prev
\* are the loop's variables, and the result is their values at its end.
RECURSIVE BestLoop(_, _, _, _, _, _, _)
BestLoop(k, dates, habitId, completions, best, cur, prev) ==
  IF k > Len(dates) THEN [best |-> best, cur |-> cur]
  ELSE IF ~isCompleted(completions, dates[k], habitId)
  THEN BestLoop(k + 1, dates, habitId, completions, best, cur, prev)
  ELSE LET nextExpected == toISODate(addDays(parseISODate(prev), 1))
           cur2 == IF prev = NoPrev THEN 1
                   ELSE IF dates[k] = nextExpected THEN cur + 1 ELSE 1
       IN  BestLoop(k + 1, dates, habitId, completions, Max(best, cur2), cur2, dates[k])

\* computeBestStreak that returns cur, the length of the last run.
computeBestStreak_LastRun(habitId, completions) ==
  BestLoop(1, SortedKeys(completions), habitId, completions, 0, 0, NoPrev).cur

computeBestStreak(habitId, completions) ==
  BestLoop(1, SortedKeys(completions), habitId, completions, 0, 0, NoPrev).best

\* completionRateForHabit that divides whatever the number of days.
completionRateForHabit_NoGuard(habitId, completions, startISO, endISO) ==
  LET days == dateRangeInclusive(startISO, endISO)
      done == Cardinality({k \in DOMAIN days : isCompleted(completions, days[k], habitId)})
  IN  RoundPct(done, Len(days))

completionRateForHabit(habitId, completions, startISO, endISO) ==
  LET days == dateRangeInclusive(startISO, endISO)
      done == Cardinality({k \in DOMAIN days : isCompleted(completions, days[k], habitId)})
  IN  IF Len(days) # 0 THEN RoundPct(done, Len(days)) ELSE 0

\* getTodaySummary that counts the completed habits of the whole list.
getTodaySummary_AnyHabit(habits, completions, dateISO) ==
  LET active == getActiveHabits(habits)
      Done(h) == isCompleted(completions, dateISO, h.id)
      completed == SelectSeq(habits, Done)
  IN  [total |-> Len(active),
       completed |-> Len(completed),
       remaining |-> Len(active) - Len(completed),
       rate |-> IF Len(active) # 0 THEN RoundPct(Len(completed), Len(active)) ELSE 0]

getTodaySummary(habits, completions, dateISO) ==
  LET active == getActiveHabits(habits)
      Done(h) == isCompleted(completions, dateISO, h.id)
      completed == SelectSeq(active, Done)
  IN  [total |-> Len(active),
       completed |-> Len(completed),
       remaining |-> Len(active) - Len(completed),
       rate |-> IF Len(active) # 0 THEN RoundPct(Len(completed), Len(active)) ELSE 0]

\* ---------------------------------------------------------- App handlers
\* Each handler is the updater it hands to setState, as a function of prev.
LoggedIds(completions) == UNION {DOMAIN completions[d] : d \in DOMAIN completions}

\* uid(): a random string; modelled as any id that is neither in the habits
\* list nor in the log.
FreshIds(prev) == Ids \ (HabitIdsOf(prev.habits) \cup LoggedIds(prev.completions))

\* h: the habit object passed in; h.id = NoId when it carries no id.
NoId == 0
upsertHabit(prev, h, newId) ==
  IF h.id = NoId
  THEN LET created == Habit(newId,
                            clamp(IF h.targetPerWeek = 0 THEN 5 ELSE h.targetPerWeek, 1, 7),
                            h.active)
       IN  [prev EXCEPT !.habits = <<created>> \o prev.habits]
  ELSE [prev EXCEPT !.habits =
          [i \in DOMAIN prev.habits |->
             IF prev.habits[i].id = h.id
             THEN [prev.habits[i] EXCEPT !.targetPerWeek = h.targetPerWeek,
                                         !.active = h.active]
             ELSE prev.habits[i]]]

\* deleteHabit that filters the habits list and leaves the log alone.
deleteHabit_NoCascade(prev, habitId) ==
  LET Keep(h) == h.id # habitId
  IN  [prev EXCEPT !.habits = SelectSeq(prev.habits, Keep)]

deleteHabit(prev, habitId) ==
  LET Keep(h) == h.id # habitId
      nextHabits == SelectSeq(prev.habits, Keep)
      copy(d) == DeleteKey(prev.completions[d], habitId)
      kept == {d \in DOMAIN prev.completions : DOMAIN copy(d) # {}}
      nextCompletions == [d \in kept |-> copy(d)]
  IN  [prev EXCEPT !.habits = nextHabits, !.completions = nextCompletions]

toggleForDate(prev, habitId, dateISO) ==
  [prev EXCEPT !.completions = toggleCompletion(prev.completions, dateISO, habitId)]

\* A week-start change that also empties the log.
setWeekStartsOn_DropLog(prev, v) ==
  [prev EXCEPT !.settings = [prev.settings EXCEPT !.weekStartsOn = v],
               !.completions = EmptyObject]

setWeekStartsOn(prev, v) == [prev EXCEPT !.settings = [prev.settings EXCEPT !.weekStartsOn = v]]

\* HabitFormDialog's save handler: the object it passes to onSave.  raw is
\* the text of the target field: blank, or the number it spells; initialId
\* is the id of the habit being edited, NoId for a new habit.
Blank == [blank |-> TRUE, num |-> 0]
Typed(n) == [blank |-> FALSE, num |-> n]
FormHabit(initialId, raw, active) ==
  LET t == clamp(IF raw.blank THEN 5 ELSE raw.num, 1, 7)
  IN  [id |-> initialId, targetPerWeek |-> t, active |-> active]

resetAll(prev, ok) == IF ok THEN defaultState ELSE prev

\* importData: parsed is the result of safeJSONParse(raw, null), a tagged
\* value; ok is the answer to window.confirm.  Returns the next document, or
\* prev when the import is refused.
JNull == [tag |-> "null"]
JAbsent == [tag |-> "absent"]
JOther == [tag |-> "other"]
JArray(items) == [tag |-> "array", val |-> items]
JObject(obj) == [tag |-> "object", val |-> obj]
JDoc(settings, habits, completions) ==
  [tag |-> "object", settings |-> settings, habits |-> habits, completions |-> completions]

\* ---- localStorage
\* An item is absent (getItem returns null) or a text.  A text written by
\* JSON.stringify denotes a JSON value; Garbage is a text that is no JSON.
\* The documents the app holds have no undefined, NaN or function values,
\* so every key of a document is written.
NoItem == [tag |-> "absent"]
Garbage == [tag |-> "text", json |-> FALSE]
JSONText(value) == [tag |-> "text", json |-> TRUE, value |-> value]

\* The JSON value of a document.
JSONOf(doc) ==
  [tag |-> "object", version |-> doc.version, settings |-> JObject(doc.settings),
   habits |-> JArray(doc.habits), completions |-> JObject(doc.completions)]

JSONstringify(doc) == JSONText(JSONOf(doc))

safeJSONParse(raw, fallback) == IF raw.json THEN raw.value ELSE fallback

\* !v for a JSON value or a missing property.  JOther stands for a value
\* that is truthy and neither an object nor an array.
Falsy(v) == v.tag \in {"absent", "null"}

\* loadState: the document App starts with.  Only the keys the code reads
\* after loading are kept.
loadState(item) ==
  IF item = NoItem THEN defaultState
  ELSE LET parsed == safeJSONParse(item, JNull)
       IN  IF parsed.tag # "object" THEN defaultState
           ELSE [version |-> parsed.version,
                 settings |-> IF Falsy(parsed.settings) THEN [weekStartsOn |-> 1]
                              ELSE parsed.settings.val,
                 habits |-> IF parsed.habits.tag = "array" THEN parsed.habits.val ELSE << >>,
                 completions |-> IF parsed.completions.tag = "object"
                                 THEN parsed.completions.val ELSE EmptyObject]

saveState(doc) == JSONstringify(doc)

\* Nothing is waiting to be rendered or saved, and the rendered document is
\* the one in storage.
Saved ==
  /\ pending = << >>
  /\ effect = FALSE
  /\ storage = saveState(state)

ImportAccepted(parsed, ok) ==
  /\ parsed.tag = "object"
  /\ ~Falsy(parsed.habits)
  /\ ~Falsy(parsed.completions)
  /\ ok

\* importData that installs the file whatever the answer to its confirmation.
importData_NoConfirm(prev, parsed, ok) ==
  IF ~ImportAccepted(parsed, TRUE) THEN prev
  ELSE [version |-> 1,
        settings |-> [weekStartsOn |->
                        IF parsed.settings.tag = "object" THEN parsed.settings.val.weekStartsOn
                        ELSE 1],
        habits |-> IF parsed.habits.tag = "array" THEN parsed.habits.val ELSE << >>,
        completions |-> IF parsed.completions.tag = "object" THEN parsed.completions.val
                        ELSE EmptyObject]

importData(prev, parsed, ok) ==
  IF ~ImportAccepted(parsed, ok) THEN prev
  ELSE [version |-> 1,
        settings |-> [weekStartsOn |->
                        IF parsed.settings.tag = "object" THEN parsed.settings.val.weekStartsOn
                        ELSE 1],
        habits |-> IF parsed.habits.tag = "array" THEN parsed.habits.val ELSE << >>,
        completions |-> IF parsed.completions.tag = "object" THEN parsed.completions.val
                        ELSE EmptyObject]

\* --------------------------------------------------- the document machine
Today == [day |-> 20089, tod |-> 1]     \* Wednesday 2025-01-01, during the day

\* What the user can type into the target field.
RawTargets == {Blank, Typed(0), Typed(9)}

\* Files the user can pick for import.
D1 == <<2024, 12, 31>>
D2 == <<2025, 1, 1>>
Marks(S) == [k \in S |-> TRUE]
ImportFiles ==
  { JNull,
    JDoc(JAbsent, JAbsent, JObject(EmptyObject)),
    JDoc(JAbsent, JArray(<< >>), JAbsent),
    JDoc(JObject([weekStartsOn |-> 0]), JArray(<<Habit(1, 3, TRUE), Habit(2, 2, FALSE)>>),
         JObject([d \in {D1, D2} |-> IF d = D1 THEN Marks({1}) ELSE Marks({1, 2})])),
    JDoc(JAbsent, JArray(<<Habit(1, 3, TRUE)>>), JObject([d \in {D2} |-> Marks({1, 2})])),
    JDoc(JAbsent, JArray(<<Habit(1, 3, TRUE)>>), JObject([d \in {D2} |-> EmptyObject])),
    JDoc(JAbsent, JArray(<<Habit(1, 9, TRUE), Habit(2, 0, TRUE)>>), JObject(EmptyObject)),
    JDoc(JAbsent, JArray(<<Habit(2, 4, TRUE)>>), JObject([d \in {D2} |-> [k \in {2} |-> FALSE]])) }

NoCall == [fn |-> "none"]
Called(fn, habitId, ok) == [fn |-> fn, habitId |-> habitId, ok |-> ok]

Init ==
  /\ state = defaultState
  /\ now = Today
  /\ selectedDateISO = toISODate(now)
  /\ ops = 0
  /\ call = NoCall
  /\ ret = << >>
  /\ Saved

\* A handler call of the document machine stands for the call, the render
\* that applies its update and the effect that saves the rendered document.
Step(c) == /\ ops < MaxOps
           /\ ops' = ops + 1
           /\ call' = c
           /\ storage' = JSONstringify(state')
           /\ UNCHANGED <<now, ret, pending, effect>>

\* HabitGrid row click: only active habits have a row.
ToggleForDate ==
  \E i \in DOMAIN state.habits :
    /\ state.habits[i].active
    /\ state' = toggleForDate(state, state.habits[i].id, selectedDateISO)
    /\ UNCHANGED selectedDateISO
    /\ Step(Called("toggleForDate", state.habits[i].id, TRUE))

\* "Add habit" dialog saved.
AddHabit ==
  \E raw \in RawTargets, active \in BOOLEAN, newId \in FreshIds(state) :
    /\ state' = upsertHabit(state, FormHabit(NoId, raw, active), newId)
    /\ UNCHANGED selectedDateISO
    /\ Step(Called("upsertHabit", newId, TRUE))

\* "Edit habit" dialog saved; the dialog is modal, so the habit edited is one
\* of the current list.
EditHabit ==
  \E i \in DOMAIN state.habits, raw \in RawTargets, active \in BOOLEAN :
    /\ state' = upsertHabit(state, FormHabit(state.habits[i].id, raw, active), NoId)
    /\ UNCHANGED selectedDateISO
    /\ Step(Called("upsertHabit", state.habits[i].id, TRUE))

\* HabitsManager's Activate / Deactivate button.
ToggleActive ==
  \E i \in DOMAIN state.habits :
    /\ state' = upsertHabit(state, [state.habits[i] EXCEPT !.active = ~state.habits[i].active], NoId)
    /\ UNCHANGED selectedDateISO
    /\ Step(Called("upsertHabit", state.habits[i].id, TRUE))

\* Delete, confirmed.
DeleteHabit ==
  \E i \in DOMAIN state.habits :
    /\ state' = deleteHabit(state, state.habits[i].id)
    /\ UNCHANGED selectedDateISO
    /\ Step(Called("deleteHabit", state.habits[i].id, TRUE))

SetWeekStartsOn ==
  \E v \in {0, 1} :
    /\ state' = setWeekStartsOn(state, v)
    /\ UNCHANGED selectedDateISO
    /\ Step(Called("setWeekStartsOn", NoId, TRUE))

ResetAll ==
  \E ok \in BOOLEAN :
    /\ state' = resetAll(state, ok)
    /\ selectedDateISO' = IF ok THEN toISODate(now) ELSE selectedDateISO
    /\ Step(Called("resetAll", NoId, ok))

ImportData ==
  \E parsed \in ImportFiles, ok \in BOOLEAN :
    /\ state' = importData(state, parsed, ok)
    /\ selectedDateISO' = IF ImportAccepted(parsed, ok) THEN toISODate(now) ELSE selectedDateISO
    /\ Step(Called("importData", NoId, ImportAccepted(parsed, ok)))

\* DayPicker: Prev, Today, Next.
PickDay ==
  \E n \in {-1, 0, 1} :
    /\ selectedDateISO' = IF n = 0 THEN toISODate(now)
                           ELSE toISODate(addDays(parseISODate(selectedDateISO), n))
    /\ UNCHANGED state
    /\ Step(Called("setDateISO", NoId, TRUE))

NextNoImport ==
  \/ ToggleForDate
  \/ AddHabit
  \/ EditHabit
  \/ ToggleActive
  \/ DeleteHabit
  \/ SetWeekStartsOn
  \/ ResetAll
  \/ PickDay

Next == NextNoImport \/ ImportData

Spec == Init /\ [][Next]_vars

SpecNoImport == Init /\ [][NextNoImport]_vars

\* ------------------------------------------------- the log's invariants
\* The ids a day object marks complete: the keys with a truthy value.
DoneIds(day) == {k \in DOMAIN day : day[k]}

\* C1: without import, every date key present in the completion log maps to
\* a non-empty set of completed habit ids.
NoEmptyDayEntry ==
  \A d \in DOMAIN state.completions : DoneIds(state.completions[d]) # {}

\* A toggle has just removed the last entry of the selected day, and the
\* day went with it.
WitnessDayPruned ==
  /\ call.fn = "toggleForDate"
  /\ ops >= 2
  /\ selectedDateISO \notin DOMAIN state.completions

\* C6: every habit id in any day's completion set is the id of a habit in
\* the habits list.
NoOrphanIds ==
  LoggedIds(state.completions) \subseteq HabitIdsOf(state.habits)

\* C7: every habit's targetPerWeek is an integer in 1..7.
TargetsClamped ==
  \A i \in DOMAIN state.habits : state.habits[i].targetPerWeek \in 1..7

\* ------------------------------------------- toggleCompletion on its own
\* The logs of the data model over three adjacent days: each day absent, or
\* an object marking a non-empty set of ids with true (what toggleCompletion
\* and deleteHabit build from the empty log).
DayObjects == {Marks(S) : S \in (SUBSET Ids) \ {{}}}
LogsOver(dates) == UNION {[S -> DayObjects] : S \in SUBSET dates}
D0 == <<2024, 12, 30>>
ToggleDates == {D0, D1, D2}

InitToggle ==
  /\ state = defaultState
  /\ now = Today
  /\ selectedDateISO = toISODate(now)
  /\ ops = 0
  /\ call \in {[fn |-> "toggleCompletion", completions |-> L, dateISO |-> d, habitId |-> h] :
                  L \in LogsOver(ToggleDates), d \in ToggleDates, h \in Ids}
  /\ ret = << >>
  /\ Saved

\* toggleCompletion(L, d, h)
ToggleOnce ==
  /\ call.fn = "toggleCompletion"
  /\ Len(ret) = 0
  /\ ret' = <<toggleCompletion(call.completions, call.dateISO, call.habitId)>>
  /\ UNCHANGED <<state, selectedDateISO, now, ops, call, pending, effect, storage>>

\* toggleCompletion(toggleCompletion(L, d, h), d, h)
ToggleAgain ==
  /\ call.fn = "toggleCompletion"
  /\ Len(ret) = 1
  /\ ret' = Append(ret, toggleCompletion(ret[1], call.dateISO, call.habitId))
  /\ UNCHANGED <<state, selectedDateISO, now, ops, call, pending, effect, storage>>

NextToggle == ToggleOnce \/ ToggleAgain

SpecToggle == InitToggle /\ [][NextToggle]_vars

\* Two logs are equal as mappings from dates to id sets.
SameLog(A, B) ==
  /\ DOMAIN A = DOMAIN B
  /\ \A d \in DOMAIN A : DoneIds(A[d]) = DoneIds(B[d])

\* C2: for all logs L, dates d and ids h, toggling (d, h) twice gives a log
\* equal to L as a mapping from dates to id sets.
ToggleTwiceIsIdentity ==
  Len(ret) = 2 => SameLog(ret[2], call.completions)

\* Both toggles done on a log that holds other entries: one where (d, h) was
\* the only mark of day d.
WitnessToggleTwice ==
  /\ Len(ret) = 2
  /\ DOMAIN call.completions = ToggleDates
  /\ \A d \in ToggleDates : DoneIds(call.completions[d]) # {}
  /\ DoneIds(call.completions[call.dateISO]) = {call.habitId}
  /\ call.dateISO \notin DOMAIN ret[1]

\* C3: toggleCompletion(L, d, h) flips isCompleted at (d, h) and at no other
\* pair; it removes day d when h was its last entry; the next toggle flips
\* (d, h) back.
ToggleFlipsExactlyOne ==
  LET L == call.completions
      d == call.dateISO
      h == call.habitId
      Flips(A, B) ==
        /\ isCompleted(B, d, h) = ~isCompleted(A, d, h)
        /\ \A d2 \in ToggleDates, h2 \in Ids :
             <<d2, h2>> # <<d, h>> => (isCompleted(B, d2, h2) = isCompleted(A, d2, h2))
        /\ (d \in DOMAIN A /\ DOMAIN A[d] = {h} /\ A[d][h]) => d \notin DOMAIN B
  IN  /\ Len(ret) >= 1 => Flips(L, ret[1])
      /\ Len(ret) = 2 => Flips(ret[1], ret[2])

\* An unmarked (d, h) was marked next to other marks of day d and of the
\* other day, then unmarked again.
WitnessToggleFlips ==
  /\ Len(ret) = 2
  /\ ~isCompleted(call.completions, call.dateISO, call.habitId)
  /\ isCompleted(ret[1], call.dateISO, call.habitId)
  /\ \E h2 \in Ids \ {call.habitId} : isCompleted(ret[2], call.dateISO, h2)
  /\ \E d2 \in ToggleDates \ {call.dateISO}, h2 \in Ids : isCompleted(ret[2], d2, h2)

\* ----------------------------------- toggleCompletion on object identities
\* The same function with the objects it reads and creates made explicit: a
\* heap maps references to objects, a log object maps date keys to the
\* references of its day objects.  The result is the new heap and the
\* reference returned.
NewRef(heap) == 1 + Cardinality(DOMAIN heap)
Alloc(heap, obj) == [r \in (DOMAIN heap) \cup {NewRef(heap)} |->
                       IF r \in DOMAIN heap THEN heap[r] ELSE obj]
Store(heap, ref, obj) == [heap EXCEPT ![ref] = obj]
ToggleDay(day, habitId) ==
  IF habitId \in DOMAIN day /\ day[habitId] THEN DeleteKey(day, habitId)
  ELSE SetKey(day, habitId, TRUE)

\* toggleCompletion with `const day = completions[dateISO] || {}`: no copy of
\* the day object, which is then changed in place.
toggleCompletionRef_NoCopy(heap, completions, dateISO, habitId) ==
  LET has  == dateISO \in DOMAIN heap[completions]
      h1   == IF has THEN heap ELSE Alloc(heap, EmptyObject)
      day  == IF has THEN heap[completions][dateISO] ELSE NewRef(heap)
      h2   == Store(h1, day, ToggleDay(h1[day], habitId))
      next == NewRef(h2)
      h3   == Alloc(h2, SetKey(h2[completions], dateISO, day))
      copy == NewRef(h3)
  IN  IF DOMAIN h3[h3[next][dateISO]] = {}
      THEN [heap |-> Alloc(h3, DeleteKey(h3[next], dateISO)), ref |-> copy]
      ELSE [heap |-> h3, ref |-> next]

toggleCompletionRef(heap, completions, dateISO, habitId) ==
  LET day  == NewRef(heap)
      h1   == Alloc(heap, IF dateISO \in DOMAIN heap[completions]
                          THEN heap[heap[completions][dateISO]]
                          ELSE EmptyObject)
      h2   == Store(h1, day, ToggleDay(h1[day], habitId))
      next == NewRef(h2)
      h3   == Alloc(h2, SetKey(h2[completions], dateISO, day))
      copy == NewRef(h3)
  IN  IF DOMAIN h3[h3[next][dateISO]] = {}
      THEN [heap |-> Alloc(h3, DeleteKey(h3[next], dateISO)), ref |-> copy]
      ELSE [heap |-> h3, ref |-> next]

\* The log a reference denotes.
Deref(heap, ref) == [d \in DOMAIN heap[ref] |-> heap[heap[ref][d]]]

\* A heap holding the log L: reference 1 is the log object, each day of L
\* has an object of its own.
DayRef(d) == IF d = D0 THEN 2 ELSE IF d = D1 THEN 3 ELSE 4
HeapOf(L) ==
  LET refs == {1} \cup {DayRef(d) : d \in DOMAIN L}
      Compact(r) == Cardinality({q \in refs : q <= r})
  IN  [r \in 1..Cardinality(refs) |->
         IF r = 1 THEN [d \in DOMAIN L |-> Compact(DayRef(d))]
         ELSE L[CHOOSE d \in DOMAIN L : Compact(DayRef(d)) = r]]

InitHeap ==
  /\ state = defaultState
  /\ now = Today
  /\ selectedDateISO = toISODate(now)
  /\ ops = 0
  /\ call \in {[fn |-> "toggleCompletionRef", heap |-> HeapOf(L), completions |-> 1,
                 dateISO |-> d, habitId |-> h] :
                  L \in LogsOver(ToggleDates), d \in ToggleDates, h \in Ids}
  /\ ret = << >>
  /\ Saved

ToggleRef ==
  /\ call.fn = "toggleCompletionRef"
  /\ Len(ret) = 0
  /\ ret' = <<toggleCompletionRef(call.heap, call.completions, call.dateISO, call.habitId)>>
  /\ UNCHANGED <<state, selectedDateISO, now, ops, call, pending, effect, storage>>

\* The caller toggles the returned log once more.
ToggleRefAgain ==
  /\ call.fn = "toggleCompletionRef"
  /\ Len(ret) = 1
  /\ ret' = Append(ret, toggleCompletionRef(ret[1].heap, ret[1].ref, call.dateISO, call.habitId))
  /\ UNCHANGED <<state, selectedDateISO, now, ops, call, pending, effect, storage>>

NextHeap == ToggleRef \/ ToggleRefAgain

SpecHeap == InitHeap /\ [][NextHeap]_vars

\* C4: toggleCompletion never mutates its input: every object that existed
\* before the call (the input log and each per-day object in it) has the
\* contents it had, the returned log is a new object, and it denotes the
\* toggled log.
ToggleLeavesInputUntouched ==
  \A i \in DOMAIN ret :
    LET before == IF i = 1 THEN call.heap ELSE ret[i - 1].heap
        input  == IF i = 1 THEN call.completions ELSE ret[i - 1].ref
    IN  /\ \A r \in DOMAIN before : ret[i].heap[r] = before[r]
        /\ ret[i].ref \notin DOMAIN before
        /\ Deref(ret[i].heap, ret[i].ref)
             = toggleCompletion(Deref(before, input), call.dateISO, call.habitId)

\* The call toggled an id of a day that the input log holds with other
\* marks, and the input still denotes the log it denoted.
WitnessToggleOnSharedDay ==
  /\ Len(ret) = 1
  /\ call.dateISO \in DOMAIN call.heap[1]
  /\ DoneIds(Deref(call.heap, 1)[call.dateISO]) \ {call.habitId} # {}
  /\ isCompleted(Deref(call.heap, 1), call.dateISO, call.habitId)
  /\ ~isCompleted(Deref(ret[1].heap, ret[1].ref), call.dateISO, call.habitId)
  /\ isCompleted(Deref(ret[1].heap, 1), call.dateISO, call.habitId)

\* ------------------------------------------------- deleteHabit on its own
\* Documents of the data model: a habits list over some of the ids, in id
\* order, and a log over the three days that marks only listed ids.
SortedSeq(S) ==
  [i \in 1..Cardinality(S) |-> CHOOSE x \in S : Cardinality({y \in S : y < x}) = i - 1]
HabitLists ==
  {[i \in 1..Cardinality(S) |-> Habit(SortedSeq(S)[i], 3 + SortedSeq(S)[i], SortedSeq(S)[i] % 2 = 1)] :
     S \in SUBSET Ids}
DocumentsOf(hs) ==
  {[version |-> 1, settings |-> [weekStartsOn |-> 1], habits |-> hs, completions |-> L] :
     L \in {M \in LogsOver(ToggleDates) : LoggedIds(M) \subseteq HabitIdsOf(hs)}}
Documents == UNION {DocumentsOf(hs) : hs \in HabitLists}

InitDelete ==
  /\ state = defaultState
  /\ now = Today
  /\ selectedDateISO = toISODate(now)
  /\ ops = 0
  /\ call \in {[fn |-> "deleteHabit", prev |-> doc, habitId |-> b] :
                  doc \in Documents, b \in Ids}
  /\ call.habitId \in HabitIdsOf(call.prev.habits)
  /\ ret = << >>
  /\ Saved

DeleteFrom ==
  /\ call.fn = "deleteHabit"
  /\ Len(ret) = 0
  /\ ret' = <<deleteHabit(call.prev, call.habitId)>>
  /\ UNCHANGED <<state, selectedDateISO, now, ops, call, pending, effect, storage>>

NextDelete == DeleteFrom

SpecDelete == InitDelete /\ [][NextDelete]_vars

\* C5: after deleteHabit(B), B is in neither the habits list nor any day's
\* set; a day where B was the sole completion is gone, a day with other
\* completions is present with exactly those; the other habits are as they
\* were, in their order; and nothing else of the document changed.
DeleteCascades ==
  Len(ret) = 1 =>
    LET prev == call.prev
        B    == call.habitId
        L    == prev.completions
        post == ret[1]
        at   == CHOOSE i \in DOMAIN prev.habits : prev.habits[i].id = B
    IN  /\ B \notin HabitIdsOf(post.habits)
        /\ B \notin LoggedIds(post.completions)
        /\ DOMAIN post.completions \subseteq DOMAIN L
        /\ \A d \in DOMAIN L :
             /\ DoneIds(L[d]) = {B} => d \notin DOMAIN post.completions
             /\ DoneIds(L[d]) \ {B} # {} =>
                  /\ d \in DOMAIN post.completions
                  /\ DOMAIN post.completions[d] = DoneIds(L[d]) \ {B}
                  /\ DoneIds(post.completions[d]) = DoneIds(L[d]) \ {B}
        /\ Len(post.habits) = Len(prev.habits) - 1
        /\ \A j \in DOMAIN post.habits :
             post.habits[j] = prev.habits[IF j < at THEN j ELSE j + 1]
        /\ post.settings = prev.settings
        /\ post.version = prev.version

\* B was deleted from a document where it was the sole completion of one
\* day, shared another day with other habits and was absent from a third.
WitnessDeleteCascade ==
  /\ Len(ret) = 1
  /\ Len(ret[1].habits) >= 2
  /\ \E d \in DOMAIN call.prev.completions :
       DoneIds(call.prev.completions[d]) = {call.habitId}
  /\ \E d \in DOMAIN call.prev.completions :
       /\ call.habitId \in DoneIds(call.prev.completions[d])
       /\ DoneIds(call.prev.completions[d]) # {call.habitId}
  /\ \E d \in DOMAIN call.prev.completions :
       call.habitId \notin DoneIds(call.prev.completions[d])
  /\ Cardinality(DOMAIN ret[1].completions) = 2

\* --------------------------------------------------- rollupDaily on its own
\* Inputs of the rollups: a habits list over some of the ids, each active or
\* not, and a log of the data model that marks listed ids on some of the
\* given days.
RollupIds == 1..NumRollupIds
ListsOver(ids) ==
  UNION {{[i \in 1..Cardinality(S) |-> Habit(SortedSeq(S)[i], 5, a[SortedSeq(S)[i]])] :
            a \in [S -> BOOLEAN]} : S \in SUBSET ids}
LogsFor(hs, dates) ==
  UNION {[S -> {Marks(T) : T \in (SUBSET HabitIdsOf(hs)) \ {{}}}] : S \in SUBSET dates}

\* Day number of a date key, and the key of a day number.
DayNum(iso) == DaysFromCivil(iso[1], iso[2], iso[3])
KeyOf(n) == CivilFromDays(n)

DailyLogDates == {<<2024, 12, 31>>, <<2025, 1, 1>>, <<2025, 1, 2>>}
DailyWindowDates == {<<2024, 12, 30>>, <<2024, 12, 31>>, <<2025, 1, 1>>, <<2025, 1, 2>>}

InitDaily ==
  /\ state = defaultState
  /\ now = Today
  /\ selectedDateISO = toISODate(now)
  /\ ops = 0
  /\ \E hs \in ListsOver(RollupIds) :
       call \in {[fn |-> "rollupDaily", habits |-> hs, completions |-> L,
                  startISO |-> s, endISO |-> e] :
                   L \in LogsFor(hs, DailyLogDates),
                   s \in DailyWindowDates, e \in DailyWindowDates}
  /\ ret = << >>
  /\ Saved

RollupDaily ==
  /\ call.fn = "rollupDaily"
  /\ Len(ret) = 0
  /\ ret' = <<rollupDaily(call.habits, call.completions, call.startISO, call.endISO)>>
  /\ UNCHANGED <<state, selectedDateISO, now, ops, call, pending, effect, storage>>

NextDaily == RollupDaily

SpecDaily == InitDaily /\ [][NextDaily]_vars

\* The ids of the active habits of a list.
ActiveIds(habits) == {habits[i].id : i \in {j \in DOMAIN habits : habits[j].active}}

\* r is num/den as a percentage rounded to the nearest integer, halves up.
IsRoundedPct(r, num, den) ==
  /\ r \in Int
  /\ 2 * r * den <= 200 * num + den
  /\ 200 * num + den < 2 * (r + 1) * den

\* The example of the specification: A and B active, A done on day 1 and
\* day 2, B on day 2 only, the window [day 1, day 2].
ExampleDailyCall ==
  [fn |-> "rollupDaily",
   habits |-> <<Habit(1, 5, TRUE), Habit(2, 5, TRUE)>>,
   completions |-> [d \in {<<2024, 12, 31>>, <<2025, 1, 1>>} |->
                      IF d = <<2024, 12, 31>> THEN Marks({1}) ELSE Marks({1, 2})],
   startISO |-> <<2024, 12, 31>>, endISO |-> <<2025, 1, 1>>]

Sunday == [day |-> 20093, tod |-> 1]
Todays == {Today, Sunday}
WeeklyLogDates == {<<2024, 12, 29>>, <<2025, 1, 1>>, <<2025, 1, 5>>}

InitWeekly ==
  /\ state = defaultState
  /\ now \in Todays
  /\ selectedDateISO = toISODate(now)
  /\ ops = 0
  /\ \E hs \in ListsOver(RollupIds) :
       call \in {[fn |-> "rollupWeekly", habits |-> hs, completions |-> L,
                  weeksBack |-> n, weekStartsOn |-> w] :
                   L \in LogsFor(hs, WeeklyLogDates),
                   n \in 1..MaxWeeksBack, w \in {0, 1}}
  /\ ret = << >>
  /\ Saved

RollupWeekly ==
  /\ call.fn = "rollupWeekly"
  /\ Len(ret) = 0
  /\ ret' = <<rollupWeekly(call.habits, call.completions, call.weeksBack,
                            call.weekStartsOn, now)>>
  /\ UNCHANGED <<state, selectedDateISO, now, ops, call, pending, effect, storage>>

NextWeekly == RollupWeekly

SpecWeekly == InitWeekly /\ [][NextWeekly]_vars

\* C9: rollupWeekly returns weeksBack points, oldest first; the last one
\* starts on startOfWeek(today, weekStartsOn), a day of the week
\* weekStartsOn with weekStart <= today <= weekStart + 6; each earlier one
\* starts exactly 7 days before the next.
WeeklyWeekStarts ==
  Len(ret) = 1 =>
    LET R     == ret[1]
        ws(k) == DayNum(R[k].weekStartISO)
    IN  /\ Len(R) = call.weeksBack
        /\ R[Len(R)].weekStartISO = toISODate(startOfWeek(now, call.weekStartsOn))
        /\ ws(Len(R)) <= now.day
        /\ now.day <= ws(Len(R)) + 6
        /\ (ws(Len(R)) + 4) % 7 = call.weekStartsOn
        /\ \A k \in 1..(Len(R) - 1) : ws(k) + 7 = ws(k + 1)

\* Two weeks were returned for a Monday week start when today is a Sunday,
\* the last day of its week; the earlier week starts in the previous year.
WitnessWeeklySundayToday ==
  /\ Len(ret) = 1
  /\ now = Sunday
  /\ call.weekStartsOn = 1
  /\ call.weeksBack = 2
  /\ ret[1][2].weekStartISO = <<2024, 12, 30>>
  /\ ret[1][1].weekStartISO = <<2024, 12, 23>>

EndOfMarch == [day |-> 20178, tod |-> 1]
LeapMarch == [day |-> 19797, tod |-> 1]
MonthlyTodays == {EndOfMarch, LeapMarch, Today}
MonthlyLogDates == {<<2025, 2, 28>>, <<2025, 3, 1>>}

InitMonthly ==
  /\ state = defaultState
  /\ now \in MonthlyTodays
  /\ selectedDateISO = toISODate(now)
  /\ ops = 0
  /\ \E hs \in ListsOver(RollupIds) :
       call \in {[fn |-> "rollupMonthly", habits |-> hs, completions |-> L, monthsBack |-> n] :
                   L \in LogsFor(hs, MonthlyLogDates), n \in 1..MaxMonthsBack}
  /\ ret = << >>
  /\ Saved

RollupMonthly ==
  /\ call.fn = "rollupMonthly"
  /\ Len(ret) = 0
  /\ ret' = <<rollupMonthly(call.habits, call.completions, call.monthsBack, now)>>
  /\ UNCHANGED <<state, selectedDateISO, now, ops, call, pending, effect, storage>>

NextMonthly == RollupMonthly

SpecMonthly == InitMonthly /\ [][NextMonthly]_vars

\* The length of month m (1..12) of year y in the calendar.
DaysIn(y, m) ==
  IF m = 2 THEN (IF y % 4 = 0 /\ (y % 100 # 0 \/ y % 400 = 0) THEN 29 ELSE 28)
  ELSE IF m \in {4, 6, 9, 11} THEN 30 ELSE 31

\* Months counted from year 0: consecutive calendar months differ by one.
MonthNum(iso) == iso[1] * 12 + iso[2] - 1

\* C11: rollupMonthly returns monthsBack points, oldest first; every point
\* starts on the 1st of a month; the last point is the month containing
\* today and each earlier point is the month right before the next one;
\* daysInMonth is the length of that month in the calendar and totalPossible
\* is activeCount*daysInMonth.
MonthlyPoints ==
  Len(ret) = 1 =>
    LET R == ret[1]
    IN  /\ Len(R) = call.monthsBack
        /\ \A k \in DOMAIN R :
             /\ R[k].monthISO[3] = 1
             /\ R[k].monthISO[2] \in 1..12
             /\ R[k].daysInMonth = DaysIn(R[k].monthISO[1], R[k].monthISO[2])
             /\ R[k].totalPossible = Cardinality(ActiveIds(call.habits)) * R[k].daysInMonth
        /\ MonthNum(R[Len(R)].monthISO) = MonthNum(KeyOf(now.day))
        /\ \A k \in 1..(Len(R) - 1) : MonthNum(R[k].monthISO) + 1 = MonthNum(R[k + 1].monthISO)

\* On 2025-03-31 two months were returned for two active habits: February
\* 2025 with 28 days, then March 2025 with 31.
WitnessMonthlyFebruary ==
  /\ Len(ret) = 1
  /\ now = EndOfMarch
  /\ Len(ret[1]) = 2
  /\ ret[1][1].monthISO = <<2025, 2, 1>>
  /\ ret[1][1].totalPossible = 56
  /\ ret[1][2].monthISO = <<2025, 3, 1>>
  /\ ret[1][2].totalPossible = 62

\* ------------------------------------------ the analytics functions together
\* One call of one of the five functions that compute a rate, on a habits
\* list and a log of the data model; today is Wednesday 2025-01-01.  The
\* short windows lie around today; the long window is the 40 days from today
\* on, with a log that marks its first days.
AnalyticsLogDates == {<<2024, 12, 31>>, <<2025, 1, 1>>}
AnalyticsWindowDates == {<<2024, 12, 31>>, <<2025, 1, 1>>, <<2025, 1, 2>>}
LongWindow == [startISO |-> <<2025, 1, 1>>, endISO |-> <<2025, 2, 9>>]
RunLengths == {0, 20, 23, 40}
RunLog(n) ==
  [d \in {CivilFromDays(DaysFromCivil(2025, 1, 1) + i) : i \in 0..(n - 1)} |-> Marks({1})]

CallsOn(hs, L) ==
  {[fn |-> "rollupDaily", habits |-> hs, completions |-> L, startISO |-> s, endISO |-> e] :
     s \in AnalyticsWindowDates, e \in AnalyticsWindowDates}
  \cup
  {[fn |-> "rollupWeekly", habits |-> hs, completions |-> L, weeksBack |-> n, weekStartsOn |-> w] :
     n \in 1..MaxWeeksBack, w \in {0, 1}}
  \cup
  {[fn |-> "rollupMonthly", habits |-> hs, completions |-> L, monthsBack |-> n] :
     n \in 1..MaxMonthsBack}
  \cup
  {[fn |-> "getTodaySummary", habits |-> hs, completions |-> L, dateISO |-> d] :
     d \in AnalyticsWindowDates}
  \cup
  {[fn |-> "completionRateForHabit", habitId |-> id, completions |-> L, startISO |-> s, endISO |-> e] :
     id \in RollupIds, s \in AnalyticsWindowDates, e \in AnalyticsWindowDates}

LongCalls ==
  {[fn |-> "completionRateForHabit", habitId |-> 1, completions |-> RunLog(n),
    startISO |-> LongWindow.startISO, endISO |-> LongWindow.endISO] : n \in RunLengths}

InitAnalytics ==
  /\ state = defaultState
  /\ now = Today
  /\ selectedDateISO = toISODate(now)
  /\ ops = 0
  /\ \/ \E hs \in ListsOver(RollupIds) :
          \E L \in LogsFor(hs, AnalyticsLogDates) : call \in CallsOn(hs, L)
     \/ call \in LongCalls
  /\ ret = << >>
  /\ Saved

CompletionRateForHabit ==
  /\ call.fn = "completionRateForHabit"
  /\ Len(ret) = 0
  /\ ret' = <<completionRateForHabit(call.habitId, call.completions, call.startISO, call.endISO)>>
  /\ UNCHANGED <<state, selectedDateISO, now, ops, call, pending, effect, storage>>

GetTodaySummary ==
  /\ call.fn = "getTodaySummary"
  /\ Len(ret) = 0
  /\ ret' = <<getTodaySummary(call.habits, call.completions, call.dateISO)>>
  /\ UNCHANGED <<state, selectedDateISO, now, ops, call, pending, effect, storage>>

NextAnalytics ==
  \/ RollupDaily
  \/ RollupWeekly
  \/ RollupMonthly
  \/ GetTodaySummary
  \/ CompletionRateForHabit

SpecAnalytics == InitAnalytics /\ [][NextAnalytics]_vars

Rollups == {"rollupDaily", "rollupWeekly", "rollupMonthly"}

\* C12: a rate whose denominator is zero is 0: with no active habit every
\* point of the three rollups and the summary of a day have rate 0, and
\* completionRateForHabit over a window whose start is after its end is 0.
ZeroDenominatorRates ==
  Len(ret) = 1 =>
    /\ (call.fn \in Rollups /\ ActiveIds(call.habits) = {}) =>
          \A k \in DOMAIN ret[1] : ret[1][k].rate = 0
    /\ (call.fn = "getTodaySummary" /\ ActiveIds(call.habits) = {}) => ret[1].rate = 0
    /\ (call.fn = "completionRateForHabit" /\ DayNum(call.startISO) > DayNum(call.endISO)) =>
          ret[1] = 0

\* rollupDaily has returned two points of rate 0 for a list of two habits,
\* both inactive and both marked on the two days of the window.
WitnessNoActiveHabit ==
  /\ Len(ret) = 1
  /\ call.fn = "rollupDaily"
  /\ Len(call.habits) = 2
  /\ ActiveIds(call.habits) = {}
  /\ \A d \in AnalyticsLogDates : \A id \in HabitIdsOf(call.habits) : isCompleted(call.completions, d, id)
  /\ Len(ret[1]) = 2
  /\ \A k \in DOMAIN ret[1] : ret[1][k].rate = 0 /\ ret[1][k].total = 0

\* r is an integer percentage: 100*num/den rounded to the nearest integer,
\* a half rounding up.
IsPercentageOf(r, num, den) == r \in 0..100 /\ IsRoundedPct(r, num, den)

\* The number of days of the window startISO..endISO.
WindowLength(startISO, endISO) ==
  IF DayNum(endISO) >= DayNum(startISO) THEN DayNum(endISO) - DayNum(startISO) + 1 ELSE 0

\* C13: every rate returned by rollupDaily, rollupWeekly, rollupMonthly,
\* getTodaySummary and completionRateForHabit is an integer r, 0 <= r <= 100,
\* equal to 100*numerator/denominator rounded to the nearest integer with a
\* half rounded up.
RatesRoundedHalfUp ==
  Len(ret) = 1 =>
    /\ call.fn = "rollupDaily" =>
         \A k \in DOMAIN ret[1] :
           ret[1][k].total > 0 =>
             IsPercentageOf(ret[1][k].rate, ret[1][k].completed, ret[1][k].total)
    /\ call.fn \in {"rollupWeekly", "rollupMonthly"} =>
         \A k \in DOMAIN ret[1] :
           ret[1][k].totalPossible > 0 =>
             IsPercentageOf(ret[1][k].rate, ret[1][k].completedTotal, ret[1][k].totalPossible)
    /\ call.fn = "getTodaySummary" =>
         (ret[1].total > 0 => IsPercentageOf(ret[1].rate, ret[1].completed, ret[1].total))
    /\ call.fn = "completionRateForHabit" =>
         LET len  == WindowLength(call.startISO, call.endISO)
             done == Cardinality({n \in DayNum(call.startISO)..DayNum(call.endISO) :
                                    isCompleted(call.completions, KeyOf(n), call.habitId)})
         IN  len > 0 => IsPercentageOf(ret[1], done, len)

\* The function named by call c applied to the habits list hs and the log L
\* with the other arguments of c.
ApplyTo(c, hs, L) ==
  CASE c.fn = "rollupDaily" -> rollupDaily(hs, L, c.startISO, c.endISO)
    [] c.fn = "rollupWeekly" -> rollupWeekly(hs, L, c.weeksBack, c.weekStartsOn, now)
    [] c.fn = "rollupMonthly" -> rollupMonthly(hs, L, c.monthsBack, now)
    [] c.fn = "getTodaySummary" -> getTodaySummary(hs, L, c.dateISO)

\* The list without its inactive habits, and the log without the given ids.
WithoutInactive(habits) == LET Kept(h) == h.active = TRUE IN SelectSeq(habits, Kept)
WithoutIds(L, ids) ==
  LET rest(d) == [k \in (DOMAIN L[d]) \ ids |-> L[d][k]]
  IN  [d \in {x \in DOMAIN L : DOMAIN rest(x) # {}} |-> rest(d)]
InactiveIds(habits) == HabitIdsOf(habits) \ ActiveIds(habits)

\* What one habit adds to the denominator of point P of the function fn.
UnitOf(fn, P) ==
  CASE fn = "rollupDaily" -> 1
    [] fn = "rollupWeekly" -> 7
    [] fn = "rollupMonthly" -> P.daysInMonth
    [] fn = "getTodaySummary" -> 1
DenominatorOf(fn, P) == IF fn \in {"rollupDaily", "getTodaySummary"} THEN P.total ELSE P.totalPossible

\* C14: the three rollups and the summary return what they return for the
\* list without its inactive habits and the log without their ids; and with
\* one more habit deactivated every denominator is lower by one unit per day.
InactiveHabitsIgnored ==
  (Len(ret) = 1 /\ call.fn \in Rollups \cup {"getTodaySummary"}) =>
    /\ ret[1] = ApplyTo(call, WithoutInactive(call.habits),
                        WithoutIds(call.completions, InactiveIds(call.habits)))
    /\ \A i \in DOMAIN call.habits :
         call.habits[i].active =>
           LET fewer == ApplyTo(call, [call.habits EXCEPT ![i].active = FALSE], call.completions)
           IN  IF call.fn = "getTodaySummary"
               THEN fewer.total = ret[1].total - 1
               ELSE /\ Len(fewer) = Len(ret[1])
                    /\ \A k \in DOMAIN ret[1] :
                         DenominatorOf(call.fn, fewer[k]) =
                           DenominatorOf(call.fn, ret[1][k]) - UnitOf(call.fn, ret[1][k])

\* rollupWeekly has returned for a list of an active and an inactive habit,
\* both marked on 2025-01-01: the week counts one completion of seven.
WitnessInactiveMarked ==
  /\ Len(ret) = 1
  /\ call.fn = "rollupWeekly"
  /\ Cardinality(ActiveIds(call.habits)) = 1
  /\ InactiveIds(call.habits) # {}
  /\ DOMAIN call.completions = {<<2025, 1, 1>>}
  /\ \A id \in HabitIdsOf(call.habits) : isCompleted(call.completions, <<2025, 1, 1>>, id)
  /\ ret[1][Len(ret[1])].completedTotal = 1
  /\ ret[1][Len(ret[1])].totalPossible = 7
  /\ ret[1][Len(ret[1])].rate = 14

\* -------------------------------------------------- computeStreak on its own
\* The logs: habit 1 is marked on the run days before and including today
\* and, when early is set, on the two days before the day that precedes the
\* run; habit 2, when other is set, is marked today and on that preceding
\* day.  Today is New Year's Day or the last day of March.
RunsToToday == {0, 1, 2, 3, MaxLookback, MaxLookback + 1}
StreakIdsOn(today, i, run, early, other) ==
  (IF i < run \/ (early /\ i \in {run + 1, run + 2}) THEN {1} ELSE {})
  \cup (IF other /\ i \in {0, run} THEN {2} ELSE {})
StreakLog(today, run, early, other) ==
  [d \in {CivilFromDays(today.day - i) : i \in 0..(run + 2)} \
         {CivilFromDays(today.day - i) :
            i \in {j \in 0..(run + 2) : StreakIdsOn(today, j, run, early, other) = {}}}
     |-> Marks(StreakIdsOn(today, today.day - DaysFromCivil(d[1], d[2], d[3]), run, early, other))]

InitStreak ==
  /\ state = defaultState
  /\ now \in {Today, EndOfMarch}
  /\ selectedDateISO = toISODate(now)
  /\ ops = 0
  /\ call \in {[fn |-> "computeStreak", habitId |-> id,
                completions |-> StreakLog(now, run, early, other)] :
                 id \in RollupIds, run \in RunsToToday, early \in BOOLEAN, other \in BOOLEAN}
  /\ ret = << >>
  /\ Saved

ComputeStreak ==
  /\ call.fn = "computeStreak"
  /\ Len(ret) = 0
  /\ ret' = <<computeStreak(call.habitId, call.completions, now)>>
  /\ UNCHANGED <<state, selectedDateISO, now, ops, call, pending, effect, storage>>

NextStreak == ComputeStreak

SpecStreak == InitStreak /\ [][NextStreak]_vars

\* The habit of the call is completed on the i-th day before today.
DoneDaysAgo(i) == isCompleted(call.completions, KeyOf(now.day - i), call.habitId)

StreakDayNums == {DaysFromCivil(2024, 12, 29) + i : i \in 0..(NumStreakDays - 1)}
BestStreakLogs ==
  UNION {[{CivilFromDays(n) : n \in S} -> {Marks({1}), Marks({2})}] :
           S \in SUBSET StreakDayNums}

InitBestStreak ==
  /\ state = defaultState
  /\ now = Today
  /\ selectedDateISO = toISODate(now)
  /\ ops = 0
  /\ call \in {[fn |-> "computeBestStreak", habitId |-> id, completions |-> L] :
                 id \in {1, 2}, L \in BestStreakLogs}
  /\ ret = << >>
  /\ Saved

ComputeBestStreak ==
  /\ call.fn = "computeBestStreak"
  /\ Len(ret) = 0
  /\ ret' = <<computeBestStreak(call.habitId, call.completions)>>
  /\ UNCHANGED <<state, selectedDateISO, now, ops, call, pending, effect, storage>>

NextBestStreak == ComputeBestStreak

SpecBestStreak == InitBestStreak /\ [][NextBestStreak]_vars

\* The habit of the call is completed on every day numbered a..b.
DoneThroughout(a, b) ==
  \A n \in a..b : isCompleted(call.completions, KeyOf(n), call.habitId)

\* The lengths of the runs of consecutive days of the log on which the habit
\* of the call is completed.
RunLengthsOfCall ==
  LET days == {DayNum(d) : d \in DOMAIN call.completions}
  IN  {b - a + 1 : <<a, b>> \in {p \in days \X days : p[1] <= p[2] /\ DoneThroughout(p[1], p[2])}}

\* C16: computeBestStreak returns the length of the longest run of
\* consecutive calendar days on which the habit is completed: 0 when there
\* is none, and otherwise a run length that no run exceeds.
BestStreakIsLongestRun ==
  Len(ret) = 1 =>
    /\ RunLengthsOfCall = {} => ret[1] = 0
    /\ RunLengthsOfCall # {} =>
         /\ ret[1] \in RunLengthsOfCall
         /\ \A n \in RunLengthsOfCall : n <= ret[1]

\* computeBestStreak has returned 5 for a habit completed on the five days
\* 2024-12-29..2025-01-02, not on 2025-01-03 (when only the other habit is),
\* and again on 2025-01-04.
WitnessBestStreakExample ==
  /\ Len(ret) = 1
  /\ call.habitId = 1
  /\ DoneThroughout(DayNum(<<2024, 12, 29>>), DayNum(<<2025, 1, 2>>))
  /\ isCompleted(call.completions, <<2025, 1, 3>>, 2)
  /\ ~isCompleted(call.completions, <<2025, 1, 3>>, 1)
  /\ isCompleted(call.completions, <<2025, 1, 4>>, 1)
  /\ ret[1] = 5

\* C17: getTodaySummary returns total = the number of active habits,
\* completed = the number of active habits completed on the day and
\* remaining = total - completed, so 0 <= completed <= total and
\* completed + remaining = total.
SummaryCounts ==
  (Len(ret) = 1 /\ call.fn = "getTodaySummary") =>
    LET S == ret[1]
    IN  /\ S.total = Cardinality(ActiveIds(call.habits))
        /\ S.completed =
             Cardinality({id \in ActiveIds(call.habits) :
                            isCompleted(call.completions, call.dateISO, id)})
        /\ S.remaining = S.total - S.completed
        /\ 0 <= S.completed
        /\ S.completed <= S.total
        /\ S.completed + S.remaining = S.total

\* getTodaySummary has returned for 2025-01-01 with two active habits of
\* which one is marked that day and the other only the day before.
WitnessSummaryOneOfTwo ==
  /\ Len(ret) = 1
  /\ call.fn = "getTodaySummary"
  /\ call.dateISO = <<2025, 1, 1>>
  /\ Cardinality(ActiveIds(call.habits)) = 2
  /\ \E id \in ActiveIds(call.habits) :
       /\ ~isCompleted(call.completions, <<2025, 1, 1>>, id)
       /\ isCompleted(call.completions, <<2024, 12, 31>>, id)
  /\ ret[1] = [total |-> 2, completed |-> 1, remaining |-> 1, rate |-> 50]

\* --------------------------------------------- dateRangeInclusive on its own
\* The window starts at the end of February of a leap year or of a common
\* year, or at the end of a year, and ends from two days before its start
\* to MaxRangeDays days after it.
RangeStarts == {<<2024, 2, 27>>, <<2025, 2, 27>>, <<2024, 12, 30>>, <<2025, 1, 1>>}

InitRange ==
  /\ state = defaultState
  /\ now = Today
  /\ selectedDateISO = toISODate(now)
  /\ ops = 0
  /\ call \in {[fn |-> "dateRangeInclusive", startISO |-> s,
                endISO |-> CivilFromDays(DaysFromCivil(s[1], s[2], s[3]) + n)] :
                 s \in RangeStarts, n \in (-2)..MaxRangeDays}
  /\ ret = << >>
  /\ Saved

DateRangeInclusive ==
  /\ call.fn = "dateRangeInclusive"
  /\ Len(ret) = 0
  /\ ret' = <<dateRangeInclusive(call.startISO, call.endISO)>>
  /\ UNCHANGED <<state, selectedDateISO, now, ops, call, pending, effect, storage>>

NextRange == DateRangeInclusive

SpecRange == InitRange /\ [][NextRange]_vars

\* C18: dateRangeInclusive returns the keys of the days start, start+1, ...,
\* end and no other, each once and in ascending order (of the days and of
\* the keys' text); so [x] for the window x..x and nothing when start > end.
RangeIsEveryDayOnce ==
  (Len(ret) = 1 /\ call.fn = "dateRangeInclusive") =>
    LET R     == ret[1]
        first == DayNum(call.startISO)
        last  == DayNum(call.endISO)
    IN  /\ Len(R) = IF last >= first THEN last - first + 1 ELSE 0
        /\ \A k \in DOMAIN R : R[k] = KeyOf(first + k - 1)
        /\ \A k \in 1..(Len(R) - 1) :
             /\ DayNum(R[k]) < DayNum(R[k + 1])
             /\ LexLess(KeyText(R[k]), KeyText(R[k + 1]))
        /\ call.startISO = call.endISO => R = <<call.startISO>>
        /\ first > last => R = << >>

\* dateRangeInclusive has returned the five days 2024-02-27..2024-03-02,
\* the leap day among them.
WitnessRangeOverLeapDay ==
  /\ Len(ret) = 1
  /\ call.fn = "dateRangeInclusive"
  /\ ret[1] = <<<<2024, 2, 27>>, <<2024, 2, 28>>, <<2024, 2, 29>>, <<2024, 3, 1>>, <<2024, 3, 2>>>>

\* ------------------------------------------- toISODate and parseISODate
\* toISODate is given two dates, formats both and the first key is parsed
\* back; parseISODate is given a text and, when it returns a date, the date
\* is formatted back.  The days are a leap day, the days around a year end
\* and around the tenth of a month, and days of the years 50, 999, 1000,
\* 9999 and 10000; the texts are the canonical keys of those days and texts
\* of another shape.
KeyDates ==
  {<<50, 6, 15>>, <<999, 12, 31>>, <<1000, 1, 1>>, <<2024, 2, 29>>, <<2024, 12, 31>>,
   <<2025, 1, 1>>, <<2025, 1, 9>>, <<2025, 1, 10>>, <<9999, 12, 31>>, <<10000, 1, 1>>}
DateOn(iso, tod) == [day |-> DaysFromCivil(iso[1], iso[2], iso[3]), tod |-> tod]

\* The key YYYY-MM-DD of a day of the years 0..9999: four digits of year.
CanonicalText(iso) ==
  [i \in 1..(4 - Len(NumberText(iso[1]))) |-> "0"] \o KeyText(iso)
CanonicalKeys == {CanonicalText(iso) : iso \in {k \in KeyDates : k[1] <= 9999}}

\* Texts that do not consist of three numerals: two parts, four parts, no
\* separator, a part that is no numeral, an empty part, the empty text.
MalformedKeys ==
  { <<"2", "0", "2", "5", "-", "0", "1">>,
    <<"2", "0", "2", "5", "-", "0", "1", "-", "0", "5", "-", "0", "7">>,
    <<"2", "0", "2", "5", "0", "1", "0", "5">>,
    <<"2", "0", "2", "5", "-", "0", "1", "-", "0", "5", "T", "1", "0">>,
    <<"2", "0", "2", "5", "-", "-", "0", "5">>,
    << >> }

InitKeys ==
  /\ state = defaultState
  /\ now = Today
  /\ selectedDateISO = toISODate(now)
  /\ ops = 0
  /\ \/ call \in {[fn |-> "toISODate", d |-> DateOn(k1, tod), e |-> DateOn(k2, 1)] :
                    k1 \in KeyDates, tod \in {0, 1}, k2 \in KeyDates}
     \/ call \in {[fn |-> "parseISODate", iso |-> t] : t \in CanonicalKeys \cup MalformedKeys}
  /\ ret = << >>
  /\ Saved

ToISODate ==
  /\ call.fn = "toISODate"
  /\ Len(ret) < 2
  /\ ret' = ret \o <<toISODateText(IF Len(ret) = 0 THEN call.d ELSE call.e)>>
  /\ UNCHANGED <<state, selectedDateISO, now, ops, call, pending, effect, storage>>

ParseBack ==
  /\ call.fn = "toISODate"
  /\ Len(ret) = 2
  /\ ret' = ret \o <<parseISODateText(ret[1])>>
  /\ UNCHANGED <<state, selectedDateISO, now, ops, call, pending, effect, storage>>

ParseISODate ==
  /\ call.fn = "parseISODate"
  /\ Len(ret) = 0
  /\ ret' = <<parseISODateText(call.iso)>>
  /\ UNCHANGED <<state, selectedDateISO, now, ops, call, pending, effect, storage>>

FormatBack ==
  /\ call.fn = "parseISODate"
  /\ Len(ret) = 1
  /\ IsValidDate(ret[1])
  /\ ret' = ret \o <<toISODateText(ret[1])>>
  /\ UNCHANGED <<state, selectedDateISO, now, ops, call, pending, effect, storage>>

NextKeys == ToISODate \/ ParseBack \/ ParseISODate \/ FormatBack

SpecKeys == InitKeys /\ [][NextKeys]_vars

\* C19: parseISODate(toISODate(d)) is the calendar day of d; for a canonical
\* key k, toISODate(parseISODate(k)) = k; and the text order of two keys is
\* the order of their days.
KeysRoundTripAndOrder ==
  /\ (call.fn = "toISODate" /\ Len(ret) = 3) =>
        /\ IsValidDate(ret[3])
        /\ ret[3].day = call.d.day
  /\ (call.fn = "toISODate" /\ Len(ret) >= 2) =>
        (LexLess(ret[1], ret[2]) <=> call.d.day < call.e.day)
  /\ (call.fn = "parseISODate" /\ call.iso \in CanonicalKeys /\ Len(ret) >= 1) =>
        IsValidDate(ret[1])
  /\ (call.fn = "parseISODate" /\ call.iso \in CanonicalKeys /\ Len(ret) = 2) =>
        ret[2] = call.iso

\* The failure the specification names for a text that is no key.
InvalidDateKey == [error |-> "InvalidDateKey"]

\* C20: parseISODate fails with InvalidDateKey on a text that does not
\* consist of three numerals separated by "-"; it returns no date for it.
MalformedKeysRejected ==
  (call.fn = "parseISODate" /\ call.iso \in MalformedKeys /\ Len(ret) >= 1) =>
    /\ ~IsValidDate(ret[1])
    /\ ret[1] = InvalidDateKey


\* --------------------------------------------------- startOfWeek on its own
\* startOfWeek is called on a date and a week start, and then on its own
\* result.  The dates are the days from Sunday 2024-12-22 on, across the end
\* of the year, at midnight and during the day.
WeekStartDates ==
  {[day |-> DaysFromCivil(2024, 12, 22) + i, tod |-> t] :
     i \in 0..(NumWeekStartDays - 1), t \in {0, 1}}

InitWeekStart ==
  /\ state = defaultState
  /\ now = Today
  /\ selectedDateISO = toISODate(now)
  /\ ops = 0
  /\ call \in {[fn |-> "startOfWeek", date |-> d, weekStartsOn |-> w] :
                 d \in WeekStartDates, w \in {0, 1}}
  /\ ret = << >>
  /\ Saved

StartOfWeek ==
  /\ call.fn = "startOfWeek"
  /\ Len(ret) = 0
  /\ ret' = <<startOfWeek(call.date, call.weekStartsOn)>>
  /\ UNCHANGED <<state, selectedDateISO, now, ops, call, pending, effect, storage>>

StartOfWeekAgain ==
  /\ call.fn = "startOfWeek"
  /\ Len(ret) = 1
  /\ ret' = Append(ret, startOfWeek(ret[1], call.weekStartsOn))
  /\ UNCHANGED <<state, selectedDateISO, now, ops, call, pending, effect, storage>>

NextWeekStart == StartOfWeek \/ StartOfWeekAgain

SpecWeekStart == InitWeekStart /\ [][NextWeekStart]_vars

\* The day of the week of a day number, 0 for Sunday: 1970-01-01 was a
\* Thursday.
WeekdayOf(dayNum) == (dayNum + 4) % 7

\* C21: startOfWeek(d, weekStartsOn) is midnight of the day d minus
\* ((dayOfWeek(d) - weekStartsOn + 7) mod 7) days: its day of the week is
\* weekStartsOn, it is on or before d and at most 6 days before d, and
\* startOfWeek of the result is the result.
StartOfWeekShift ==
  (call.fn = "startOfWeek" /\ Len(ret) >= 1) =>
    LET d == call.date
        w == call.weekStartsOn
        r == ret[1]
    IN  /\ r.day = d.day - ((WeekdayOf(d.day) - w + 7) % 7)
        /\ r.tod = 0
        /\ WeekdayOf(r.day) = w
        /\ r.day <= d.day
        /\ d.day - r.day <= 6
        /\ Len(ret) = 2 => ret[2] = r

\* startOfWeek of Sunday 2024-12-29 with weeks starting on Monday has
\* returned Monday 2024-12-23, six days before, and the same again on it.
WitnessWeekStartOfSunday ==
  /\ call.fn = "startOfWeek"
  /\ call.weekStartsOn = 1
  /\ toISODate(call.date) = <<2024, 12, 29>>
  /\ Len(ret) = 2
  /\ toISODate(ret[1]) = <<2024, 12, 23>>
  /\ ret[2] = ret[1]

\* ------------------------------------------- the same call made twice
\* A function is called, time passes, and it is called once more with the
\* same arguments, as a caller does that keeps the first result for as long
\* as the arguments stay the same (Insights and HabitInsights keep theirs by
\* useMemo on habits, completions and weekStartsOn).  Today is a day in the
\* middle of a week and of a month, the last day of a week, or the last day
\* of a month.
MemoTodays == {Today, Sunday, EndOfMarch}
MemoHabits == <<Habit(1, 5, TRUE)>>
MemoLogs(today) == LogsFor(MemoHabits, {toISODate(today), toISODate(addDays(today, -1))})
MemoCalls(today) ==
  UNION {
    {[fn |-> "rollupDaily", habits |-> MemoHabits, completions |-> L,
      startISO |-> toISODate(addDays(today, -1)), endISO |-> toISODate(today)],
     [fn |-> "rollupWeekly", habits |-> MemoHabits, completions |-> L,
      weeksBack |-> 1, weekStartsOn |-> 1],
     [fn |-> "rollupMonthly", habits |-> MemoHabits, completions |-> L, monthsBack |-> 1],
     [fn |-> "computeStreak", habitId |-> 1, completions |-> L],
     [fn |-> "computeBestStreak", habitId |-> 1, completions |-> L],
     [fn |-> "completionRateForHabit", habitId |-> 1, completions |-> L,
      startISO |-> toISODate(addDays(today, -1)), endISO |-> toISODate(today)]} :
    L \in MemoLogs(today)}

InitMemo ==
  /\ state = defaultState
  /\ now \in MemoTodays
  /\ selectedDateISO = toISODate(now)
  /\ ops = 0
  /\ call \in MemoCalls(now)
  /\ ret = << >>
  /\ Saved

\* A day passes.
DayPasses ==
  /\ ops < MaxDaysPassed
  /\ ops' = ops + 1
  /\ now' = addDays(now, 1)
  /\ UNCHANGED <<state, selectedDateISO, call, ret, pending, effect, storage>>

\* The function of call c run when new Date() is nowDate.
ResultAt(c, nowDate) ==
  CASE c.fn = "rollupDaily" -> rollupDaily(c.habits, c.completions, c.startISO, c.endISO)
    [] c.fn = "rollupWeekly" ->
         rollupWeekly(c.habits, c.completions, c.weeksBack, c.weekStartsOn, nowDate)
    [] c.fn = "rollupMonthly" -> rollupMonthly(c.habits, c.completions, c.monthsBack, nowDate)
    [] c.fn = "computeStreak" -> computeStreak(c.habitId, c.completions, nowDate)
    [] c.fn = "computeBestStreak" -> computeBestStreak(c.habitId, c.completions)
    [] c.fn = "completionRateForHabit" ->
         completionRateForHabit(c.habitId, c.completions, c.startISO, c.endISO)

\* The second call, with the arguments of the first.
CallAgain ==
  /\ Len(ret) = 1
  /\ ret' = Append(ret, ResultAt(call, now))
  /\ UNCHANGED <<state, selectedDateISO, now, ops, call, pending, effect, storage>>

NextMemo ==
  \/ RollupDaily
  \/ RollupWeekly
  \/ RollupMonthly
  \/ ComputeStreak
  \/ ComputeBestStreak
  \/ CompletionRateForHabit
  \/ DayPasses
  \/ CallAgain

SpecMemo == InitMemo /\ [][NextMemo]_vars

\* C22: two calls of a rollup function with equal habits, log and window
\* parameters return equal results, whatever happened between them, the
\* current date advancing included.
SameArgumentsSameResult ==
  Len(ret) = 2 => ret[2] = ret[1]

\* ------------------------------------------------------- the app under React
\* A handler hands its update to setState and returns; React applies the
\* updates in the order they were handed over when it next renders App, and
\* runs the effect of useEffect(() => saveState(state), [state]) after a
\* render in which state was replaced.  An update is the record of the
\* function setState was given, or of the value it was given.
Updater(fn, habitId, arg) == [fn |-> fn, habitId |-> habitId, arg |-> arg]
SetValue(doc) == [fn |-> "set", value |-> doc]
SetSelectedDateISO(iso) == [fn |-> "setSelectedDateISO", value |-> iso]

\* The updates of pending that replace state; the others replace
\* selectedDateISO.
OnState(u) == u.fn # "setSelectedDateISO"

\* The next document: the function of update u applied to prev.
ApplyUpdate(prev, u) ==
  CASE u.fn = "toggleForDate" -> toggleForDate(prev, u.habitId, u.arg)
    [] u.fn = "deleteHabit" -> deleteHabit(prev, u.habitId)
    [] u.fn = "upsertHabit" -> upsertHabit(prev, u.arg, u.habitId)
    [] u.fn = "setWeekStartsOn" -> setWeekStartsOn(prev, u.arg)
    [] u.fn = "set" -> u.value
    [] u.fn = "setSelectedDateISO" -> prev

RECURSIVE ApplyAll(_, _)
ApplyAll(prev, updates) ==
  IF updates = << >> THEN prev
  ELSE ApplyAll(ApplyUpdate(prev, Head(updates)), Tail(updates))

\* The selected day after the updates: the last value handed to
\* setSelectedDateISO, if any.
RECURSIVE SelectedAfter(_, _)
SelectedAfter(iso, updates) ==
  IF updates = << >> THEN iso
  ELSE SelectedAfter(IF OnState(Head(updates)) THEN iso ELSE Head(updates).value,
                     Tail(updates))

\* The ids in use by the updates that are pending: those uid() has yet to
\* return for them, and those of the documents handed over as values.
PendingIds ==
  {pending[i].habitId : i \in {j \in DOMAIN pending : pending[j].fn = "upsertHabit"}}
  \cup UNION {HabitIdsOf(pending[i].value.habits) \cup LoggedIds(pending[i].value.completions) :
               i \in {j \in DOMAIN pending : pending[j].fn = "set"}}

\* What localStorage holds under the key when App mounts: nothing, a text
\* that is no JSON, the text of a value that is no object, of a document the
\* app saved, or of an object that lacks some of a document's parts.
SavedDocument ==
  [version |-> 1, settings |-> [weekStartsOn |-> 0],
   habits |-> <<Habit(1, 3, TRUE), Habit(2, 2, FALSE)>>,
   completions |-> [d \in {D2} |-> Marks({1})]]
StoredAtStart ==
  { NoItem, Garbage, JSONText(JNull), JSONstringify(SavedDocument),
    JSONText([tag |-> "object", version |-> 1, settings |-> JAbsent,
              habits |-> JOther, completions |-> JNull]) }

InitApp ==
  /\ storage \in StoredAtStart
  /\ state = loadState(storage)
  /\ now = Today
  /\ selectedDateISO = toISODate(now)
  /\ ops = 0
  /\ call = NoCall
  /\ ret = <<state>>
  /\ pending = << >>
  /\ effect = TRUE

\* The document after call c on document doc when nothing else is pending:
\* for the calls that write the log, the log writer applied to doc.
CallOn(doc, c, us) ==
  CASE c.fn = "toggleForDate" -> toggleForDate(doc, c.habitId, selectedDateISO)
    [] c.fn = "deleteHabit" -> deleteHabit(doc, c.habitId)
    [] OTHER -> ApplyAll(doc, us)

\* A handler runs: it hands the updates us to setState.  ret[1] is the
\* document there would be had every call so far been rendered before the
\* next was made.
Dispatch(c, us) ==
  /\ ops < MaxDispatches
  /\ ops' = ops + 1
  /\ call' = c
  /\ pending' = pending \o us
  /\ ret' = <<CallOn(ret[1], c, us)>>
  /\ UNCHANGED <<state, selectedDateISO, now, effect, storage>>

\* toggleForDate that computes the next log from the document of the last
\* render and hands setState the resulting document.
CallToggleForDate_Stale ==
  \E i \in DOMAIN state.habits :
    /\ state.habits[i].active
    /\ Dispatch(Called("toggleForDate", state.habits[i].id, TRUE),
                <<SetValue(toggleForDate(state, state.habits[i].id, selectedDateISO))>>)

\* The handlers see the document and the selected day of the last render.
CallToggleForDate ==
  \E i \in DOMAIN state.habits :
    /\ state.habits[i].active
    /\ Dispatch(Called("toggleForDate", state.habits[i].id, TRUE),
                <<Updater("toggleForDate", state.habits[i].id, selectedDateISO)>>)

CallAddHabit ==
  \E newId \in FreshIds(state) \ PendingIds :
    Dispatch(Called("upsertHabit", newId, TRUE),
             <<Updater("upsertHabit", newId, FormHabit(NoId, Blank, TRUE))>>)

CallToggleActive ==
  \E i \in DOMAIN state.habits :
    Dispatch(Called("upsertHabit", state.habits[i].id, TRUE),
             <<Updater("upsertHabit", NoId,
                       [state.habits[i] EXCEPT !.active = ~state.habits[i].active])>>)

CallDeleteHabit ==
  \E i \in DOMAIN state.habits :
    Dispatch(Called("deleteHabit", state.habits[i].id, TRUE),
             <<Updater("deleteHabit", state.habits[i].id, NoId)>>)

CallSetWeekStartsOn ==
  \E v \in {0, 1} :
    Dispatch(Called("setWeekStartsOn", NoId, TRUE), <<Updater("setWeekStartsOn", NoId, v)>>)

CallResetAll ==
  \E ok \in BOOLEAN :
    Dispatch(Called("resetAll", NoId, ok),
             IF ok THEN <<SetValue(resetAll(state, ok)), SetSelectedDateISO(toISODate(now))>>
             ELSE << >>)

CallImportData ==
  \E parsed \in ImportFiles, ok \in BOOLEAN :
    Dispatch(Called("importData", NoId, ImportAccepted(parsed, ok)),
             IF ImportAccepted(parsed, ok)
             THEN <<SetValue(importData(state, parsed, ok)), SetSelectedDateISO(toISODate(now))>>
             ELSE << >>)

\* React renders App: the pending updates are applied in order.  The effect
\* of the render before, if still due, is run first; the effect is due
\* again when state was replaced.
Render ==
  /\ pending # << >>
  /\ state' = ApplyAll(state, pending)
  /\ selectedDateISO' = SelectedAfter(selectedDateISO, pending)
  /\ pending' = << >>
  /\ storage' = IF effect THEN saveState(state) ELSE storage
  /\ effect' = \E i \in DOMAIN pending : OnState(pending[i])
  /\ UNCHANGED <<now, ops, call, ret>>

\* An effect that is run and writes nothing.
RunEffect_NoWrite ==
  /\ effect
  /\ effect' = FALSE
  /\ UNCHANGED <<state, selectedDateISO, now, ops, call, ret, pending, storage>>

\* useEffect(() => { saveState(state); }, [state])
RunEffect ==
  /\ effect
  /\ storage' = saveState(state)
  /\ effect' = FALSE
  /\ UNCHANGED <<state, selectedDateISO, now, ops, call, ret, pending>>

NextApp ==
  \/ CallToggleForDate
  \/ CallAddHabit
  \/ CallToggleActive
  \/ CallDeleteHabit
  \/ CallSetWeekStartsOn
  \/ CallResetAll
  \/ CallImportData
  \/ Render
  \/ RunEffect

SpecApp == InitApp /\ [][NextApp]_vars

\* React renders whenever an update is pending and runs an effect that is
\* due.
SpecAppLive == SpecApp /\ WF_vars(Render) /\ WF_vars(RunEffect)

\* No update is waiting to be rendered and no effect to be run.
Idle == pending = << >> /\ ~effect

exportData(doc) ==
  JSONText([tag |-> "object", version |-> doc.version, settings |-> JObject(doc.settings),
            habits |-> JArray(doc.habits), completions |-> JObject(doc.completions),
            exportedAtISO |-> "2025-01-01T12:00:00.000Z"])

IngestParts ==
  [settings : {JAbsent, JObject([weekStartsOn |-> 0])},
   habits : {JAbsent, JNull, JOther, JArray(<<Habit(2, 4, FALSE)>>)},
   completions : {JAbsent, JNull, JOther, JObject([d \in {D1} |-> Marks({2})])}]
IngestTexts ==
  {Garbage, JSONText(JNull), JSONText(JOther), exportData(SavedDocument)}
  \cup {JSONText([tag |-> "object", version |-> 2, settings |-> p.settings,
                  habits |-> p.habits, completions |-> p.completions]) : p \in IngestParts}

InitIngest ==
  /\ state = defaultState
  /\ now = Today
  /\ selectedDateISO = toISODate(now)
  /\ ops = 0
  /\ call \in {[fn |-> "loadState", raw |-> t] : t \in IngestTexts \cup {NoItem}}
              \cup {[fn |-> "importData", prev |-> doc, raw |-> t, ok |-> ok] :
                      doc \in {defaultState, SavedDocument}, t \in IngestTexts, ok \in BOOLEAN}
              \cup {[fn |-> "resetAll", prev |-> doc, ok |-> ok] :
                      doc \in {defaultState, SavedDocument}, ok \in BOOLEAN}
  /\ ret = << >>
  /\ Saved

LoadState ==
  /\ call.fn = "loadState"
  /\ Len(ret) = 0
  /\ ret' = <<loadState(call.raw)>>
  /\ UNCHANGED <<state, selectedDateISO, now, ops, call, pending, effect, storage>>

\* The document importData leaves App with.
ImportDataOn ==
  /\ call.fn = "importData"
  /\ Len(ret) = 0
  /\ ret' = <<importData(call.prev, safeJSONParse(call.raw, JNull), call.ok)>>
  /\ UNCHANGED <<state, selectedDateISO, now, ops, call, pending, effect, storage>>

\* The document resetAll leaves App with.
ResetAllOn ==
  /\ call.fn = "resetAll"
  /\ Len(ret) = 0
  /\ ret' = <<resetAll(call.prev, call.ok)>>
  /\ UNCHANGED <<state, selectedDateISO, now, ops, call, pending, effect, storage>>

NextIngest == LoadState \/ ImportDataOn \/ ResetAllOn

SpecIngest == InitIngest /\ [][NextIngest]_vars

\* The value a text denotes, null for a text that is no JSON.
Denoted(raw) == IF raw.json THEN raw.value ELSE JNull

\* C24: a malformed document is ingested, at load and on a confirmed
\* import, never rejected as a whole: missing settings become
\* {weekStartsOn: 1}, habits that are no array the empty list, completions
\* that are no object the empty log, each whatever the other parts are.
IngestDegradesFieldByField ==
  (/\ Len(ret) = 1
   /\ call.fn \in {"loadState", "importData"}
   /\ call.fn = "importData" => call.ok
   /\ call.raw # NoItem
   /\ Denoted(call.raw).tag = "object") =>
    LET parsed == Denoted(call.raw)
    IN  /\ ret[1].settings = IF parsed.settings.tag = "object" THEN parsed.settings.val
                             ELSE [weekStartsOn |-> 1]
        /\ ret[1].habits = IF parsed.habits.tag = "array" THEN parsed.habits.val ELSE << >>
        /\ ret[1].completions = IF parsed.completions.tag = "object"
                                THEN parsed.completions.val ELSE EmptyObject

\* A value that importData takes for a tracker export: an object with
\* habits and completions (each alert of importData names its case).
LooksLikeExport(parsed) ==
  parsed.tag = "object" /\ ~Falsy(parsed.habits) /\ ~Falsy(parsed.completions)

\* C30: a replacement that is refused or rejected leaves the document as it
\* was: resetAll or importData whose confirmation is declined, importData of
\* a text that is no JSON or no tracker export.  An accepted import installs
\* a document with exactly the keys version (= 1), settings, habits and
\* completions, without exportedAtISO.
RefusedReplacementKeepsDocument ==
  Len(ret) = 1 =>
    /\ (call.fn = "resetAll" /\ ~call.ok) => ret[1] = call.prev
    /\ (call.fn = "importData" /\ (~call.ok \/ ~LooksLikeExport(Denoted(call.raw)))) =>
         ret[1] = call.prev
    /\ (call.fn = "importData" /\ call.ok /\ LooksLikeExport(Denoted(call.raw))) =>
         /\ DOMAIN ret[1] = {"version", "settings", "habits", "completions"}
         /\ ret[1].version = 1

\* The export of a saved document was imported over the default document
\* and confirmed: the saved document is installed.
WitnessExportImported ==
  /\ Len(ret) = 1
  /\ call.fn = "importData"
  /\ call.ok
  /\ call.prev = defaultState
  /\ call.raw = exportData(SavedDocument)
  /\ ret[1] = SavedDocument

\* ------------------------------------------------ what the handlers keep
\* C25: only toggleForDate, deleteHabit, resetAll and importData change the
\* completion log: a change of weekStartsOn, the creation or the edit of a
\* habit and its activation or deactivation (all three upsertHabit) leave
\* it exactly as it was, and so does the choice of another day; a change of
\* weekStartsOn leaves the habits list as it was too.
HistoryKeptByOtherHandlers ==
  [][(ops' = ops + 1 /\ call'.fn \in {"setWeekStartsOn", "upsertHabit", "setDateISO"}) =>
       /\ state'.completions = state.completions
       /\ call'.fn = "setWeekStartsOn" => state'.habits = state.habits]_vars

\* The week start was changed to Sunday while the log held a mark, and the
\* log still holds it.
WitnessWeekStartChangedLogKept ==
  /\ call.fn = "setWeekStartsOn"
  /\ state.settings.weekStartsOn = 0
  /\ state.completions # EmptyObject

\* C27: writes to the completion log are serialized: the updates made
\* before a render are each applied to the document the one before
\* produced, toggles of one habit or of two and toggles between deleteHabit
\* and upsertHabit alike, so the rendered log and habits are those of the
\* calls made one after the other and no update is lost.
LogWritesSerialized ==
  pending = << >> =>
    /\ state.completions = ret[1].completions
    /\ state.habits = ret[1].habits

\* Two habits were toggled for the selected day and one render applied both
\* toggles: the log in memory marks both while storage still holds what it
\* held before either.
WitnessBothTogglesInOneRender ==
  /\ pending = << >>
  /\ effect
  /\ call.fn = "toggleForDate"
  /\ ops = 2
  /\ selectedDateISO \in DOMAIN state.completions
  /\ Cardinality(DOMAIN state.completions[selectedDateISO]) = 2
  /\ storage \in {NoItem, JSONstringify(defaultState)}

\* ------------------------------------------ the simple tracker (src/src/App.jsx)
\* Its state is the habits list and the text of the input field, held in
\* state as [habits, text]; a habit is [id, name, done].  now is Date.now(),
\* a count of milliseconds; storage is the item under "habit_simple".  The
\* handlers see the habits and text of the last render and hand setHabits
\* and setText a value; ret[1] is the habits list there would be had every
\* call been rendered before the next was made.
SetHabits(value) == [fn |-> "setHabits", value |-> value]
SetText(value) == [fn |-> "setText", value |-> value]

\* The state after the pending updates: each value replaces the one before.
RECURSIVE SimpleApplyAll(_, _)
SimpleApplyAll(prev, updates) ==
  IF updates = << >> THEN prev
  ELSE SimpleApplyAll(IF Head(updates).fn = "setHabits"
                      THEN [prev EXCEPT !.habits = Head(updates).value]
                      ELSE [prev EXCEPT !.text = Head(updates).value],
                      Tail(updates))

\* JSON.parse(localStorage.getItem(KEY)) || []
SimpleLoad(item) ==
  IF item = NoItem THEN << >> ELSE item.value

\* [{ id: Date.now(), name: text, done: false }, ...habits]
addHabit(habits, text, ms) == <<[id |-> ms, name |-> text, done |-> FALSE]>> \o habits

\* habits.map(h => h.id === id ? { ...h, done: !h.done } : h)
toggle(habits, id) ==
  [i \in DOMAIN habits |-> IF habits[i].id = id THEN [habits[i] EXCEPT !.done = ~habits[i].done]
                           ELSE habits[i]]

\* What the item holds when the tracker mounts: nothing, or a saved list.
SimpleStoredAtStart ==
  {NoItem, JSONText(<<[id |-> 2, name |-> "walk", done |-> FALSE],
                      [id |-> 1, name |-> "swim", done |-> TRUE]>>)}

\* Date.now() when the tracker mounts, later than the ids of the saved list.
FirstTick == 3

InitSimple ==
  /\ storage \in SimpleStoredAtStart
  /\ state = [habits |-> SimpleLoad(storage), text |-> ""]
  /\ now = FirstTick
  /\ selectedDateISO = toISODate(Today)
  /\ ops = 0
  /\ call = NoCall
  /\ ret = <<state.habits>>
  /\ pending = << >>
  /\ effect = TRUE

SimpleCall(c, us, expected) ==
  /\ ops < MaxSimpleCalls
  /\ ops' = ops + 1
  /\ call' = c
  /\ pending' = pending \o us
  /\ ret' = <<expected>>
  /\ UNCHANGED <<state, selectedDateISO, now, effect, storage>>

\* onChange of the input field.
SimpleSetText ==
  \E t \in {"", "read"} :
    SimpleCall(Called("setText", NoId, TRUE), <<SetText(t)>>, ret[1])

\* The add button; the handler returns at once on a blank text.
SimpleAddHabit ==
  IF state.text = ""
  THEN SimpleCall(Called("addHabit", NoId, FALSE), << >>, ret[1])
  ELSE SimpleCall(Called("addHabit", now, TRUE),
                  <<SetHabits(addHabit(state.habits, state.text, now)), SetText("")>>,
                  addHabit(ret[1], state.text, now))

\* The button of a habit of the rendered list.
SimpleToggle ==
  \E i \in DOMAIN state.habits :
    SimpleCall(Called("toggle", state.habits[i].id, TRUE),
               <<SetHabits(toggle(state.habits, state.habits[i].id))>>,
               toggle(ret[1], state.habits[i].id))

\* React renders App; the effect of the render before, if still due, is run
\* first, and the effect is due again when habits was replaced.
SimpleRender ==
  /\ pending # << >>
  /\ state' = SimpleApplyAll(state, pending)
  /\ pending' = << >>
  /\ storage' = IF effect THEN JSONText(state.habits) ELSE storage
  /\ effect' = \E i \in DOMAIN pending : pending[i].fn = "setHabits"
  /\ UNCHANGED <<selectedDateISO, now, ops, call, ret>>

\* useEffect(() => localStorage.setItem(KEY, JSON.stringify(habits)), [habits])
SimpleEffect ==
  /\ effect
  /\ storage' = JSONText(state.habits)
  /\ effect' = FALSE
  /\ UNCHANGED <<state, selectedDateISO, now, ops, call, ret, pending>>

\* A millisecond passes.
ClockTick ==
  /\ now < FirstTick + MaxTicks
  /\ now' = now + 1
  /\ UNCHANGED <<state, selectedDateISO, ops, call, ret, pending, effect, storage>>

NextSimple ==
  \/ SimpleSetText
  \/ SimpleAddHabit
  \/ SimpleToggle
  \/ SimpleRender
  \/ SimpleEffect
  \/ ClockTick

SpecSimple == InitSimple /\ [][NextSimple]_vars

\* C26: in every reachable state the habits of the list have pairwise
\* distinct ids, two habits created within one clock tick included.
HabitIdsDistinct ==
  \A i, j \in DOMAIN state.habits : i # j => state.habits[i].id # state.habits[j].id

\* C28: in the simple tracker the mutations dispatched before a render are
\* all in the rendered list: no add and no flip of done is lost.
SimpleMutationsAllApplied ==
  pending = << >> => state.habits = ret[1]

\* ------------------------------------ computeStreak and computeBestStreak
\* Both functions are called on one habit and one log, as the rows of
\* HabitInsights do, and computeBestStreak once more after a completion of
\* the habit was added to the log.  The logs mark, on each of NumPairDays
\* days from 2024-12-29 on, habit 1, habit 2 or none; today is the second or
\* the fourth of them, so that the log may run past today.
PairDayNums == {DaysFromCivil(2024, 12, 29) + i : i \in 0..(NumPairDays - 1)}
PairLogs ==
  UNION {[{CivilFromDays(n) : n \in S} -> {Marks({1}), Marks({2})}] : S \in SUBSET PairDayNums}
PairTodays == {[day |-> DaysFromCivil(2024, 12, 29) + i, tod |-> 1] : i \in {1, 3}}

InitStreakPair ==
  /\ state = defaultState
  /\ now \in PairTodays
  /\ selectedDateISO = toISODate(now)
  /\ ops = 0
  /\ call \in {[fn |-> "streaks", habitId |-> 1, completions |-> L, addISO |-> CivilFromDays(n)] :
                 L \in PairLogs, n \in PairDayNums}
  /\ ~isCompleted(call.completions, call.addISO, call.habitId)
  /\ ret = << >>
  /\ Saved

\* currentStreak and bestStreak of a row.
StreakAndBest ==
  /\ call.fn = "streaks"
  /\ Len(ret) = 0
  /\ ret' = <<computeStreak(call.habitId, call.completions, now),
              computeBestStreak(call.habitId, call.completions)>>
  /\ UNCHANGED <<state, selectedDateISO, now, ops, call, pending, effect, storage>>

\* bestStreak on the log with the habit marked on addISO as well.
BestAfterCompletion ==
  /\ call.fn = "streaks"
  /\ Len(ret) = 2
  /\ ret' = Append(ret, computeBestStreak(call.habitId,
                          toggleCompletion(call.completions, call.addISO, call.habitId)))
  /\ UNCHANGED <<state, selectedDateISO, now, ops, call, pending, effect, storage>>

NextStreakPair == StreakAndBest \/ BestAfterCompletion

SpecStreakPair == InitStreakPair /\ [][NextStreakPair]_vars

\* C29: for every habit and log, at every today, computeStreak is at most
\* computeBestStreak, and computeBestStreak does not decrease when a
\* completion of the habit is added to the log.
StreakAtMostBest ==
  /\ Len(ret) >= 2 => ret[1] <= ret[2]
  /\ Len(ret) = 3 => ret[3] >= ret[2]

\* The habit was done on the two days up to today and on the day after
\* tomorrow: streak 2, best 2, and best 4 once tomorrow is added.
WitnessStreakJoinsRuns ==
  /\ Len(ret) = 3
  /\ ret = <<2, 2, 4>>
  /\ toISODate(now) = <<2025, 1, 1>>
====
